---------------------------- MODULE Spec2Model ----------------------------
(***************************************************************************)
(* Model of the diag session engine of scat (Qualcomm parser):             *)
(*   - QualcommParser.parse_diag and its sub-decoders (byte level),        *)
(*   - QualcommParser.run_diag, the session loop (framing on 0x7E),        *)
(*   - QualcommParser.postprocess_parse_result, the KPI post-processor,    *)
(*   - sigint_handler / scat_main, the cancellation path.                  *)
(*                                                                         *)
(* Three specifications share the variables:                               *)
(*   ParseSpec  parse_diag applied to one frame (a pure function),         *)
(*   Spec       the live session: run_diag, the interrupt, stop_diag       *)
(*              (FairSpec is Spec with the fairness of a running process), *)
(*   PostSpec   postprocess_parse_result fed with results over time.       *)
(***************************************************************************)
EXTENDS Integers, Sequences, FiniteSets, TLC

(***************************************************************************)
(* Bytes and little-endian fields                                          *)
(***************************************************************************)
Byte == 0..255

\* bit k (0 = least significant) of the natural number x
Bit(x, k) == (x \div (2^k)) % 2

\* x with bit k flipped (x XOR 2^k)
FlipBit(x, k) == IF Bit(x, k) = 1 THEN x - 2^k ELSE x + 2^k

\* struct '<H' and '<L' on a byte sequence, first byte at index i (1-based)
U16(s, i) == s[i] + 256 * s[i+1]
U32(s, i) == s[i] + 256 * s[i+1] + 65536 * s[i+2] + 16777216 * s[i+3]

\* python slice s[a:b] with 0-based a, exclusive b, clipped to the sequence
Slice(s, a, b) == SubSeq(s, a + 1, IF b > Len(s) THEN Len(s) ELSE b)

\* python slice s[:-2]
DropLast2(s) == SubSeq(s, 1, Len(s) - 2)

(***************************************************************************)
(* Diag opcodes (scat.parsers.qualcomm.diagcmd)                            *)
(***************************************************************************)
DIAG_VERNO_F == 0
DIAG_LOG_F == 16
DIAG_EVENT_REPORT_F == 96
DIAG_LOG_CONFIG_F == 115
DIAG_EXT_MSG_F == 121
DIAG_EXT_BUILD_ID_F == 124
DIAG_EXT_MSG_CONFIG_F == 125
DIAG_EXT_MSG_TERSE_F == 138
DIAG_QSR_EXT_MSG_TERSE_F == 146
DIAG_MULTI_RADIO_CMD_F == 152
DIAG_QSR4_EXT_MSG_TERSE_F == 153
DIAG_QSH_TRACE_PAYLOAD_F == 156
DIAG_SECURE_LOG_F == 158

\* the frame delimiter and the HDLC escape byte
HDLC_FLAG == 126
HDLC_ESC == 125

(***************************************************************************)
(* Frame codec (scat.util): CRC-16/X-25 and HDLC unescaping                *)
(***************************************************************************)
\* one bit of the reflected CRC with polynomial 0x8408 (bits 15, 10, 3)
CrcBit(b) ==
    [crc \in 0..65535 |->
        IF (crc % 2) # b
        THEN FlipBit(FlipBit((crc \div 2) + 32768, 10), 3)
        ELSE crc \div 2]

\* the CRC after one more byte, bit 0 first
CrcByte(byte) ==
    [crc \in 0..65535 |->
        LET F[k \in 0..8] ==
                IF k = 0 THEN crc ELSE CrcBit(Bit(byte, k - 1))[F[k - 1]]
        IN F[8]]

\* the CRC register after the bytes of s, from 0xFFFF: the byte loop over
\* s[lo..hi] entered with crc, cut in halves so that long frames need no
\* deep recursion
CrcFold(s) ==
    LET Range[lo \in 1..(Len(s) + 1), hi \in 0..Len(s), crc \in 0..65535] ==
            IF lo > hi THEN crc
            ELSE IF lo = hi THEN CrcByte(s[lo])[crc]
            ELSE Range[((lo + hi) \div 2) + 1, hi,
                       Range[lo, (lo + hi) \div 2, crc]]
    IN Range[1, Len(s), 65535]

\* util.dm_crc16: init 0xFFFF, final XOR 0xFFFF
dm_crc16(s) == 65535 - CrcFold(s)

\* the state of util.unwrap's byte loop: the bytes put out and whether the
\* last byte read was a 0x7D still waiting for its partner
UnwrapState == [esc : BOOLEAN, bytes : Seq(Byte)]

\* one byte of the loop: 0x7D b  ->  b XOR 0x20
UnwrapByte(st, b) ==
    IF st.esc THEN [esc |-> FALSE, bytes |-> Append(st.bytes, FlipBit(b, 5))]
    ELSE IF b = HDLC_ESC THEN [st EXCEPT !.esc = TRUE]
    ELSE [st EXCEPT !.bytes = Append(@, b)]

\* the loop over the bytes of s (cut in halves, as in CrcFold)
UnwrapFrom(s) ==
    LET Range[lo \in 1..(Len(s) + 1), hi \in 0..Len(s), st \in UnwrapState] ==
            IF lo > hi THEN st
            ELSE IF lo = hi THEN UnwrapByte(st, s[lo])
            ELSE Range[((lo + hi) \div 2) + 1, hi,
                       Range[lo, (lo + hi) \div 2, st]]
    IN Range[1, Len(s), [esc |-> FALSE, bytes |-> <<>>]]

\* util.unwrap: a trailing 0x7D is a bad escape
unwrap(s) == [ok |-> ~UnwrapFrom(s).esc, bytes |-> UnwrapFrom(s).bytes]

\* the two CRC bytes appended to a payload (little-endian), as util.wrap does
CrcTail(s) == <<dm_crc16(s) % 256, dm_crc16(s) \div 256>>

\* HDLC escaping as the device applies it to payload and CRC: 0x7D and 0x7E
\* become 0x7D followed by the byte XOR 0x20
RECURSIVE EscapeFrom(_, _, _)
EscapeFrom(s, lo, hi) ==
    IF lo > hi THEN <<>>
    ELSE IF lo = hi
         THEN IF s[lo] \in {HDLC_ESC, HDLC_FLAG}
              THEN <<HDLC_ESC, FlipBit(s[lo], 5)>>
              ELSE <<s[lo]>>
    ELSE EscapeFrom(s, lo, (lo + hi) \div 2)
            \o EscapeFrom(s, ((lo + hi) \div 2) + 1, hi)

Escape(s) == EscapeFrom(s, 1, Len(s))


(***************************************************************************)
(* Results of parse_diag.  kind is "none" (None returned), "dict" (a       *)
(* result dictionary) or "raise" (an exception left the decoder).  warn    *)
(* counts the WARNING records logged, dec lists the sub-decoders entered,  *)
(* radio_id is -1 when the dictionary has no 'radio_id' key.               *)
(* ts is <<>> when it has no 'ts' key.                                    *)
(***************************************************************************)
NoneRes(w, d) ==
    [kind |-> "none", warn |-> w, dec |-> d, radio_id |-> -1, ts |-> <<>>,
     has_cp |-> FALSE, cp |-> <<>>, stdout |-> <<>>]

RaiseRes(w, d) ==
    [kind |-> "raise", warn |-> w, dec |-> d, radio_id |-> -1, ts |-> <<>>,
     has_cp |-> FALSE, cp |-> <<>>, stdout |-> <<>>]

DictRes(w, d, hascp, cpv, out) ==
    [kind |-> "dict", warn |-> w, dec |-> d, radio_id |-> -1, ts |-> <<>>,
     has_cp |-> hascp, cp |-> cpv, stdout |-> out]

\* a stdout line: a kind and the values rendered into it
Line(k, v) == [k |-> k, v |-> v]

(***************************************************************************)
(* Sub-decoders                                                            *)
(***************************************************************************)
\* QualcommParser.parse_diag_version
VersionMinLen == 47

parse_diag_version(pkt, w) ==
    IF Len(pkt) < VersionMinLen THEN NoneRes(w, <<"parse_diag_version">>)
    ELSE DictRes(w, <<"parse_diag_version">>, FALSE, <<>>,
                 <<Line("Compile", Slice(pkt, 1, 47))>>)

\* self.process: the log ids with a registered decoder.  The log parsers
\* that fill it are not part of the sources; one id (0xB0C0, LTE RRC OTA)
\* stands for them.
LogProcess == {45248}

\* QualcommParser.parse_diag_log: header '<BBHHHQ'.  A registered decoder is
\* a leaf: its result is represented by the arguments it is called with.
\* An id in no_process and an id in neither table both return None.
LogHeaderLen == 16

parse_diag_log(pkt, w) ==
    IF Len(pkt) < LogHeaderLen THEN NoneRes(w, <<"parse_diag_log">>)
    ELSE LET length2 == U16(pkt, 5)
             log_id == U16(pkt, 7)
             pkt_body == Slice(pkt, LogHeaderLen, Len(pkt))
             w2 == IF Len(pkt_body) # length2 - 12 THEN w + 1 ELSE w
         IN IF log_id \in LogProcess
            THEN DictRes(w2, <<"parse_diag_log", "process">>, TRUE,
                         <<[log_id |-> log_id, pkt_body |-> pkt_body]>>, <<>>)
            ELSE NoneRes(w2, <<"parse_diag_log">>)

\* DiagLteEventParser.process: event id -> number of payload arguments the
\* registered decoder takes (3 stands for one byte-string argument)
EventArity(id) ==
    CASE id \in {1606, 1966, 1967, 1968, 1969, 1631, 1632, 1637, 1638, 1994} -> 1
      [] id \in {1609, 1610, 1614} -> 2
      [] id \in {1605, 1611, 1498, 1627, 1628, 1629, 1630, 1633, 1634, 1635, 1636} -> 3
      [] OTHER -> 0

\* DiagLteEventParser.parse_event_lte_rrc_state_change: the state name
RrcStateName(a) ==
    CASE a = 0 -> "RRC_SEARCH"
      [] a = 1 -> "RRC_IDLE_NOT_CAMPED"
      [] a = 2 -> "RRC_IDLE_CAMPED"
      [] a = 3 -> "RRC_CONNECTING"
      [] a = 4 -> "RRC_CONNECTED"
      [] a = 5 -> "RRC_INACTIVE"
      [] a = 7 -> "RRC_CLOSING"
      [] OTHER -> "hex"

\* the text after 'LTE RRC State: ': the name, or the two hex digits of an
\* unmapped value ("{:02x}".format(arg1))
RrcStateText(a) ==
    IF RrcStateName(a) = "hex" THEN <<"hex", a>> ELSE <<RrcStateName(a)>>

\* self.no_process_event: the event ids explicitly suppressed.  The event
\* parsers that fill it are not part of the sources; one id stands for them.
NoProcessEvent == {2}

\* DiagFallbackEventParser.event_names: the ids whose name contains FAILURE
\* (LTE_RRC_RADIO_LINK_FAILURE, ..._CELL_RESEL_FAILURE, ..._HO_FAILURE).  The
\* table is not part of the sources.
FailureEvents == {1608, 1612, 1613}

\* a faulty variant: the line is returned whether or not show_kpi is set
stdout_for_failure_event_AnyMode(event_id, cfg) ==
    IF event_id \in FailureEvents THEN <<Line("RRC event: ", <<event_id>>)>>
    ELSE <<>>

\* QualcommParser._stdout_for_failure_event; the name is rendered by its id
stdout_for_failure_event(event_id, cfg) ==
    IF ~cfg.show_kpi THEN <<>>
    ELSE IF event_id \in FailureEvents THEN <<Line("RRC event: ", <<event_id>>)>>
    ELSE <<>>

\* the stdout text a registered decoder of DiagLteEventParser returns with
\* its record (none unless show_kpi)
stdout_for_registered_event(event_id, args, cfg) ==
    IF ~cfg.show_kpi THEN <<>>
    ELSE CASE event_id = 1606 -> <<Line("LTE RRC State: ", RrcStateText(args[1]))>>
           [] event_id = 1994 -> <<Line("LTE RRC State Cause: ", args)>>
           [] event_id \in {1609, 1610} /\ args[2] = 131 ->
                 <<Line("LTE handover: ", <<event_id>>)>>
           [] event_id \in {1498, 1611} /\ Len(args) > 0 ->
                 <<Line(IF event_id = 1498 THEN "LTE Timing Advance: "
                        ELSE "LTE RRC NEW_CELL_IND: ", args)>>
           [] OTHER -> <<>>

\* the decoders that raise on their argument: parse_event_lte_nas_msg
\* unpacks '<L' from the first four bytes of its byte string
DecoderRaises(event_id, args) ==
    event_id \in {1627, 1628, 1629, 1630, 1633, 1634, 1635, 1636} /\ Len(args) < 4

\* datetime.datetime.now() read when the cursor is at pos (0: on entry)
Now(pos) == <<"now", pos>>

\* util.parse_qxdm_ts of the eight timestamp bytes that start at offset pos
QxdmTs(pkt, pos) == <<"qxdm", Slice(pkt, pos, pos + 8)>>

\* a faulty variant: the truncated timestamp is not skipped
TimestampSize_TruncatedUnskipped(ts_trunc) == IF ts_trunc = 0 THEN 8 ELSE 0

\* the bytes of the timestamp of an entry: `pos += 10` and `pos += 4` less
\* the two bytes of the event word
TimestampSize(ts_trunc) == IF ts_trunc = 0 THEN 8 ELSE 2

\* a faulty variant: the length byte of a byte string is not counted
PayloadSize_LengthByteUncounted(pkt, p2, payload_len) ==
    CASE payload_len = 0 -> 0
      [] payload_len = 1 -> 1
      [] payload_len = 2 -> 2
      [] OTHER -> pkt[p2 + 1]

\* the bytes of the payload that starts at offset p2: `pos += 1`,
\* `pos += 2`, `pos += (1 + pkt[pos])`
PayloadSize(pkt, p2, payload_len) ==
    CASE payload_len = 0 -> 0
      [] payload_len = 1 -> 1
      [] payload_len = 2 -> 2
      [] OTHER -> 1 + pkt[p2 + 1]

\* QualcommParser.parse_diag_event, one iteration of the while loop, entered
\* with pos < len(pkt).  A short read of the event word, of the 64-bit
\* timestamp or of the payload raises, as does a decoder called with the
\* wrong arity.  A record of cp names the entry, the timestamp handed to the
\* decoder and the decoder that produced it.
EventIteration(pkt, pos, cpv, out, cfg) ==
    IF pos + 2 > Len(pkt)
    THEN [raised |-> TRUE, pos |-> pos, cp |-> cpv, out |-> out, ts |-> <<>>]
    ELSE
      LET eid == U16(pkt, pos + 1)
          event_id == eid % 4096
          payload_len == (eid \div 8192) % 4
          ts_trunc == eid \div 32768
          ts == IF ts_trunc = 0 THEN QxdmTs(pkt, pos + 2) ELSE Now(pos)
          p2 == pos + 2 + TimestampSize(ts_trunc)
          short == (ts_trunc = 0 /\ p2 > Len(pkt))
                   \/ (payload_len >= 1 /\ p2 + 1 > Len(pkt))
                   \/ (payload_len = 2 /\ p2 + 2 > Len(pkt))
          arity == EventArity(event_id)
          adv == PayloadSize(pkt, p2, payload_len)
          args == CASE payload_len = 0 -> <<>>
                    [] payload_len = 1 -> <<pkt[p2 + 1]>>
                    [] payload_len = 2 -> <<pkt[p2 + 1], pkt[p2 + 2]>>
                    [] OTHER -> Slice(pkt, p2 + 1, p2 + 1 + pkt[p2 + 1])
          rec(by) == [event_id |-> event_id, payload_len |-> payload_len,
                      args |-> args, ts |-> ts, by |-> by]
          raise == [raised |-> TRUE, pos |-> pos, cp |-> cpv, out |-> out, ts |-> ts]
          next(c, o) == [raised |-> FALSE, pos |-> p2 + adv, cp |-> c, out |-> o,
                         ts |-> ts]
      IN IF short THEN raise
         ELSE IF arity # 0
         THEN IF arity # payload_len \/ DecoderRaises(event_id, args)
              THEN raise
              ELSE next(Append(cpv, rec("process")),
                        out \o stdout_for_registered_event(event_id, args, cfg))
         ELSE IF event_id \in NoProcessEvent
         THEN next(cpv, out)
         ELSE next(Append(cpv, rec("fallback")),
                   out \o stdout_for_failure_event(event_id, cfg))

\* the while loop: `while pos < len(pkt)`
RECURSIVE EventLoop(_, _, _, _, _, _)
EventLoop(pkt, pos, cpv, out, ts, cfg) ==
    IF pos >= Len(pkt)
    THEN [raised |-> FALSE, pos |-> pos, cp |-> cpv, out |-> out, ts |-> ts]
    ELSE LET s == EventIteration(pkt, pos, cpv, out, cfg)
         IN IF s.raised THEN s
            ELSE EventLoop(pkt, s.pos, s.cp, s.out, s.ts, cfg)

EventHeaderLen == 3

\* the dictionary {'cp': event_pkts, 'ts': ts} with its optional 'stdout'
EventResult(w, cpv, out, ts) ==
    [DictRes(w, <<"parse_diag_event">>, TRUE, cpv, out) EXCEPT !.ts = ts]

parse_diag_event(pkt, w, cfg) ==
    IF Len(pkt) < EventHeaderLen THEN RaiseRes(w, <<"parse_diag_event">>)
    ELSE LET r == EventLoop(pkt, EventHeaderLen, <<>>, <<>>, Now(0), cfg)
         IN IF r.raised THEN RaiseRes(w, <<"parse_diag_event">>)
            ELSE EventResult(w, r.cp, r.out, r.ts)

\* QualcommParser.parse_diag_log_config
LogConfigMinLen == 8

parse_diag_log_config(pkt, w) ==
    IF Len(pkt) < LogConfigMinLen THEN NoneRes(w, <<"parse_diag_log_config">>)
    ELSE DictRes(w, <<"parse_diag_log_config">>, FALSE, <<>>,
                 <<Line("Log Config: ", <<U32(pkt, 5)>>)>>)

\* QualcommParser.parse_diag_ext_build_id
BuildIdMinLen == 12

parse_diag_ext_build_id(pkt, w) ==
    IF Len(pkt) < BuildIdMinLen THEN NoneRes(w, <<"parse_diag_ext_build_id">>)
    ELSE DictRes(w, <<"parse_diag_ext_build_id">>, FALSE, <<>>,
                 <<Line("Build ID: ", Slice(pkt, 12, Len(pkt) - 2))>>)

\* QualcommParser.parse_diag_secure_log
SecureLogMinLen == 24

parse_diag_secure_log(pkt, w) ==
    IF Len(pkt) < SecureLogMinLen THEN NoneRes(w + 1, <<"parse_diag_secure_log">>)
    ELSE LET item_len == U16(pkt, 21)
             w2 == IF (Len(pkt) - SecureLogMinLen) + 4 # item_len THEN w + 1 ELSE w
         IN DictRes(w2, <<"parse_diag_secure_log">>, FALSE, <<>>,
                    <<Line("Secure log: ", Slice(pkt, 24, Len(pkt)))>>)

\* a faulty variant of sanitize_radio_id: radio ids above 2 are not clamped
sanitize_radio_id_Unclamped(radio_id) ==
    IF radio_id <= 0 THEN 0 ELSE radio_id - 1

\* QualcommParser.sanitize_radio_id
sanitize_radio_id(radio_id) ==
    IF radio_id <= 0 THEN 0
    ELSE IF radio_id > 2 THEN 1
    ELSE radio_id - 1

MultisimHeaderLen == 8

\* QualcommParser.parse_diag_ext_msg: header '<BBBBQHHL' then num_args u32
ExtMsgHeaderLen == 20

parse_diag_ext_msg(pkt, w) ==
    IF Len(pkt) < ExtMsgHeaderLen THEN RaiseRes(w, <<"parse_diag_ext_msg">>)
    ELSE IF Len(pkt) < ExtMsgHeaderLen + 4 * pkt[3]
    THEN RaiseRes(w, <<"parse_diag_ext_msg">>)
    ELSE DictRes(w, <<"parse_diag_ext_msg">>, TRUE,
                 <<Slice(pkt, ExtMsgHeaderLen + 4 * pkt[3], Len(pkt))>>, <<>>)

\* QualcommParser.parse_diag_ext_msg_config: sub-op 1 (ranges), 2 (levels)
ExtMsgConfigHeaderLen == 8

parse_diag_ext_msg_config(pkt, w) ==
    LET d == <<"parse_diag_ext_msg_config">>
    IN IF Len(pkt) < 2 THEN NoneRes(w, d)
       ELSE IF pkt[2] = 1
       THEN IF Len(pkt) < ExtMsgConfigHeaderLen THEN NoneRes(w, d)
            ELSE IF Len(pkt) < ExtMsgConfigHeaderLen + 4 * U16(pkt, 5) THEN NoneRes(w, d)
            ELSE DictRes(w, d, FALSE, <<>>,
                         <<Line("Extended message range: ", <<U16(pkt, 5)>>)>>)
       ELSE IF pkt[2] = 2
       THEN IF Len(pkt) < ExtMsgConfigHeaderLen THEN NoneRes(w, d)
            ELSE IF Len(pkt) < ExtMsgConfigHeaderLen + 4 * (U16(pkt, 5) - U16(pkt, 3) + 1)
            THEN NoneRes(w, d)
            ELSE DictRes(w, d, FALSE, <<>>,
                         <<Line("Extended message level: ", <<U16(pkt, 3), U16(pkt, 5)>>)>>)
       ELSE NoneRes(w, d)

\* QualcommParser.parse_diag_ext_msg_terse
parse_diag_ext_msg_terse(pkt, w) == NoneRes(w, <<"parse_diag_ext_msg_terse">>)

\* QualcommParser.parse_diag_qsr_ext_msg_terse: header, u32 hash, num_args u32.
\* A hash is kept as its four bytes on the wire (little-endian), so that
\* every 32-bit value has a representation.
QsrArgsOffset == 24

parse_diag_qsr_ext_msg_terse(pkt, w, cfg) ==
    LET d == <<"parse_diag_qsr_ext_msg_terse">>
    IN IF Len(pkt) < ExtMsgHeaderLen THEN RaiseRes(w, d)
       ELSE IF Len(pkt) < QsrArgsOffset + 4 * pkt[3] THEN RaiseRes(w, d)
       ELSE DictRes(w, d, TRUE,
                    <<[hit |-> Slice(pkt, 20, 24) \in cfg.qsr_content,
                       hash |-> Slice(pkt, 20, 24),
                       args |-> Slice(pkt, QsrArgsOffset, QsrArgsOffset + 4 * pkt[3])]>>,
                    <<>>)

\* QualcommParser.parse_diag_qsr4_ext_msg: header '<BBBBQLH', then the
\* arguments; of num_size_args, bits [0:4] (counted from the most
\* significant one) are the count and bits [4:8] the size of an argument
Qsr4HeaderLen == 18

parse_diag_qsr4_ext_msg(pkt, w, cfg) ==
    LET d == <<"parse_diag_qsr4_ext_msg">>
    IN IF Len(pkt) < Qsr4HeaderLen THEN NoneRes(w, d)
       ELSE LET arg_num == pkt[3] \div 16
                arg_size == pkt[3] % 16
                hash == Slice(pkt, 12, 16)
            IN IF Len(pkt) - Qsr4HeaderLen # arg_num * arg_size THEN NoneRes(w, d)
               ELSE IF arg_size > 4 THEN NoneRes(w, d)
               ELSE IF hash \in cfg.qsr4_content
               THEN DictRes(w, d, TRUE,
                            <<[hit |-> TRUE, hash |-> hash,
                               args |-> Slice(pkt, Qsr4HeaderLen, Len(pkt))]>>, <<>>)
               ELSE NoneRes(w, d)

\* QualcommParser.parse_diag_qsh_trace_msg: header '<B BBBBBBB L L';
\* the assert on the argument count raises
QshHeaderLen == 16
QshArgBase == 19

parse_diag_qsh_trace_msg(pkt, w, cfg) ==
    LET d == <<"parse_diag_qsh_trace_msg">>
    IN IF Len(pkt) < QshHeaderLen THEN NoneRes(w, d)
       ELSE IF Slice(pkt, 12, 16) \in cfg.qsr4_mtrace_content
       THEN IF (Len(pkt) - QshHeaderLen) \div 4 # pkt[5] - QshArgBase
            THEN RaiseRes(w, d)
            ELSE DictRes(w, d, TRUE,
                         <<[hit |-> TRUE, hash |-> Slice(pkt, 12, 16),
                            args |-> Slice(pkt, QshHeaderLen, Len(pkt))]>>, <<>>)
       ELSE NoneRes(w, d)

(***************************************************************************)
(* QualcommParser.parse_diag and QualcommParser.parse_diag_multisim        *)
(*   cfg = [check_crc, parse_events, parse_msgs, show_kpi, qsr_content,    *)
(*          qsr4_content, qsr4_mtrace_content]                             *)
(***************************************************************************)
RECURSIVE parse_diag(_, _, _, _)
RECURSIVE parse_diag_multisim(_, _, _)

\* a faulty variant of the dispatch: QSR terse messages are decoded whether
\* or not parse_msgs is set
Dispatch_QsrUngated(pkt, w, cfg) ==
    CASE pkt[1] = DIAG_VERNO_F -> parse_diag_version(pkt, w)
      [] pkt[1] = DIAG_LOG_F -> parse_diag_log(pkt, w)
      [] pkt[1] = DIAG_EVENT_REPORT_F /\ cfg.parse_events -> parse_diag_event(pkt, w, cfg)
      [] pkt[1] = DIAG_LOG_CONFIG_F -> parse_diag_log_config(pkt, w)
      [] pkt[1] = DIAG_EXT_MSG_F /\ cfg.parse_msgs -> parse_diag_ext_msg(pkt, w)
      [] pkt[1] = DIAG_EXT_BUILD_ID_F -> parse_diag_ext_build_id(pkt, w)
      [] pkt[1] = DIAG_EXT_MSG_CONFIG_F -> parse_diag_ext_msg_config(pkt, w)
      [] pkt[1] = DIAG_EXT_MSG_TERSE_F /\ cfg.parse_msgs -> parse_diag_ext_msg_terse(pkt, w)
      [] pkt[1] = DIAG_QSR_EXT_MSG_TERSE_F -> parse_diag_qsr_ext_msg_terse(pkt, w, cfg)
      [] pkt[1] = DIAG_MULTI_RADIO_CMD_F -> parse_diag_multisim(pkt, w, cfg)
      [] pkt[1] = DIAG_QSR4_EXT_MSG_TERSE_F /\ cfg.parse_msgs
            -> parse_diag_qsr4_ext_msg(pkt, w, cfg)
      [] pkt[1] = DIAG_QSH_TRACE_PAYLOAD_F /\ cfg.parse_msgs
            -> parse_diag_qsh_trace_msg(pkt, w, cfg)
      [] pkt[1] = DIAG_SECURE_LOG_F -> parse_diag_secure_log(pkt, w)
      [] OTHER -> NoneRes(w, <<>>)

\* the dispatch on the first byte of the unwrapped, CRC-stripped packet
Dispatch(pkt, w, cfg) ==
    CASE pkt[1] = DIAG_VERNO_F -> parse_diag_version(pkt, w)
      [] pkt[1] = DIAG_LOG_F -> parse_diag_log(pkt, w)
      [] pkt[1] = DIAG_EVENT_REPORT_F /\ cfg.parse_events -> parse_diag_event(pkt, w, cfg)
      [] pkt[1] = DIAG_LOG_CONFIG_F -> parse_diag_log_config(pkt, w)
      [] pkt[1] = DIAG_EXT_MSG_F /\ cfg.parse_msgs -> parse_diag_ext_msg(pkt, w)
      [] pkt[1] = DIAG_EXT_BUILD_ID_F -> parse_diag_ext_build_id(pkt, w)
      [] pkt[1] = DIAG_EXT_MSG_CONFIG_F -> parse_diag_ext_msg_config(pkt, w)
      [] pkt[1] = DIAG_EXT_MSG_TERSE_F /\ cfg.parse_msgs -> parse_diag_ext_msg_terse(pkt, w)
      [] pkt[1] = DIAG_QSR_EXT_MSG_TERSE_F /\ cfg.parse_msgs
            -> parse_diag_qsr_ext_msg_terse(pkt, w, cfg)
      [] pkt[1] = DIAG_MULTI_RADIO_CMD_F -> parse_diag_multisim(pkt, w, cfg)
      [] pkt[1] = DIAG_QSR4_EXT_MSG_TERSE_F /\ cfg.parse_msgs
            -> parse_diag_qsr4_ext_msg(pkt, w, cfg)
      [] pkt[1] = DIAG_QSH_TRACE_PAYLOAD_F /\ cfg.parse_msgs
            -> parse_diag_qsh_trace_msg(pkt, w, cfg)
      [] pkt[1] = DIAG_SECURE_LOG_F -> parse_diag_secure_log(pkt, w)
      [] OTHER -> NoneRes(w, <<>>)

\* the CRC check of parse_diag: the number of warnings it logs for a packet
\* (after unwrapping) whose last two bytes are the little-endian CRC
CrcWarnings(pkt, cfg) ==
    IF cfg.check_crc /\ dm_crc16(DropLast2(pkt)) # U16(pkt, Len(pkt) - 1)
    THEN 1 ELSE 0

\* what parse_diag does once the CRC has been compared: the CRC bytes are
\* stripped and the packet is dispatched, whatever the comparison gave
AfterCrc(pkt, w, cfg) ==
    LET body == DropLast2(pkt)
    IN IF Len(body) = 0 THEN RaiseRes(w, <<>>) ELSE Dispatch(body, w, cfg)

parse_diag(pkt, hdlc_encoded, has_crc, cfg) ==
    IF Len(pkt) < 3 THEN NoneRes(0, <<>>)
    ELSE LET u == IF hdlc_encoded THEN unwrap(pkt) ELSE [ok |-> TRUE, bytes |-> pkt]
         IN IF ~u.ok THEN RaiseRes(0, <<>>)
            ELSE IF has_crc
                 THEN AfterCrc(u.bytes, CrcWarnings(u.bytes, cfg), cfg)
                 ELSE Dispatch(u.bytes, 0, cfg)

parse_diag_multisim(pkt, w, cfg) ==
    IF Len(pkt) < MultisimHeaderLen THEN NoneRes(w, <<"parse_diag_multisim">>)
    ELSE LET rid == sanitize_radio_id(U32(pkt, 5))
             ret == parse_diag(Slice(pkt, MultisimHeaderLen, Len(pkt)), FALSE, FALSE, cfg)
             r2 == [ret EXCEPT !.warn = @ + w, !.dec = <<"parse_diag_multisim">> \o @]
         IN IF ret.kind = "dict" THEN [r2 EXCEPT !.radio_id = rid] ELSE r2


(***************************************************************************)
(* State                                                                   *)
(***************************************************************************)
VARIABLES
    \* ParseSpec: one call of parse_diag
    p_pc,        \* "call" before the call, "done" after it, "off" elsewhere
    p_payload,   \* the packet the device meant to send (opcode first, no CRC)
    p_crc,       \* "good", "flipped" (CRC bytes inverted) or "none" (no CRC)
    p_pkt,       \* the bytes handed to parse_diag
    p_framed,    \* TRUE: hdlc_encoded = has_crc = True (run_diag, init_diag)
    p_cfg,       \* the parser's options
    p_res        \* the result of the call

parseVars == <<p_pc, p_payload, p_crc, p_pkt, p_framed, p_cfg, p_res>>

\* the live session (scat_main from the first run_diag call on)
VARIABLES
    r_pc,          \* "read": run_diag is inside io_device.read; "got": the read
                   \* returned; "returned": run_diag returned; "crashed": an
                   \* exception left run_diag; "exit1": sys.exit(1); "stopped":
                   \* the final stop_diag has run; "off" in the other specs
    r_block,       \* io_device.block_until_data
    r_qmdl,        \* --qmdl given: the first run_diag has a raw writer
    r_run,         \* which run_diag call of scat_main is active (1 or 2)
    r_writer,      \* the writer argument of the active run_diag call
    r_cfg,         \* the parser's options
    r_buf,         \* what the last read returned
    r_oldbuf,      \* run_diag's oldbuf
    r_loop,        \* run_diag's loop flag
    r_stop,        \* the parser's _stop_requested attribute
    r_stream,      \* history: all bytes the active call has read
    r_dispatched,  \* history: the frames the active call passed to parse_diag
    r_raw,         \* history: what the active call wrote to its raw writer
    r_post,        \* history: the frames whose result went to the post-processor
    r_lastlen,     \* history: length of the read of the last finished iteration
    r_stopsent     \* history: the requests stop_diag wrote after run_diag

runVars == <<r_pc, r_block, r_qmdl, r_run, r_writer, r_cfg, r_buf, r_oldbuf,
             r_loop, r_stop, r_stream, r_dispatched, r_raw, r_post, r_lastlen,
             r_stopsent>>

\* the post-processor
VARIABLES
    now,           \* time.time(), in ticks
    post_cfg,      \* show_kpi, combine_stdout, layers; feed: what the modem sends
    per_radio,     \* radio id -> the entries of the parser's per-radio dicts
    calls,         \* history: number of results post-processed
    result,        \* history: the result of the last call
    emitted,       \* history: the lines the last call emitted, in order
    written,       \* history: what the last call passed to writer.write_cp/up
    comb_times,    \* history: radio id -> times of its last two combined-KPI lines
    dl_times,      \* history: radio id -> times of its last two DL-MCS lines
    scell_times    \* history: radio id -> times of its last two serving-cell lines

postVars == <<now, post_cfg, per_radio, calls, result, emitted, written,
              comb_times, dl_times, scell_times>>

\* the post-processor fed with traffic every 100 ms
VARIABLES
    w_now,         \* time.time(), in tenths of a second
    w_rs,          \* the entries of the parser's per-radio dicts for radio 0
    w_fedat,       \* history: the instants at which a result was post-processed
    w_lines        \* history: the throughput lines printed so far

windowVars == <<w_now, w_rs, w_fedat, w_lines>>

\* the negotiation of a live session (scat_main up to the first run_diag)
VARIABLES
    n_pc,            \* the function scat_main is in: "stop_diag", "init_diag",
                     \* "sleep" (init_diag is in time.sleep), "prepare_diag",
                     \* "run_diag" (entered), "exit1" (sys.exit(1)), "crashed"
                     \* (an exception left scat_main); "off" in the other specs
    n_msgs,          \* parse_msgs
    n_todo,          \* the I/O calls the function still has to make, in order
    n_attempt,       \* init_diag's attempt
    n_slept,         \* history: seconds spent in time.sleep
    n_ops,           \* history: the I/O calls of the current function call (of
                     \* the current attempt in init_diag)
    n_last,          \* history: the last I/O call of the session
    n_log_id_range,  \* self.log_id_range
    n_emr_id_range,  \* self.emr_id_range
    n_levels,        \* prepare_diag's emr_level_range
    n_printed,       \* history: the lines printed for the last reply parsed
    n_warned,        \* history: warnings logged by stop_diag and init_diag
    n_failed         \* history: attempts of init_diag that raised

negVars == <<n_pc, n_msgs, n_todo, n_attempt, n_slept, n_ops, n_last, n_log_id_range,
             n_emr_id_range, n_levels, n_printed, n_warned, n_failed>>

\* set_parameter and the hash-file loaders
VARIABLES
    h_pc,          \* "params": in the loop of set_parameter, between two
                   \* parameters; "qsr", "qsr4": in the line loop of a loader;
                   \* "done": set_parameter returned; "crashed": an exception
                   \* left set_parameter; "off" in the other specs
    h_args,        \* the values of 'qsr-hash', 'qsr4-hash' and 'msgs'
    h_todo,        \* the parameters still to be handled, in dictionary order
    h_lines,       \* the lines of the open file still to be read
    h_mode,        \* load_qsr4_hash's mode
    h_loaded,      \* set_parameter's qsr_hash_loaded
    h_parse_msgs,  \* self.parse_msgs
    h_qsr_content,              \* the keys of self.qsr_content
    h_qsr4_content,             \* the keys of self.qsr4_content
    h_qsr4_mtrace_content,      \* the keys of self.qsr4_mtrace_content
    h_qsr4_qtrace_str_content,  \* the keys of self.qsr4_qtrace_str_content
    h_report       \* history: how each load ended: "none" (not run), "true",
                   \* "false" (no content row), "magic", "zlib" (False after
                   \* an error log), "error" (ValueError, caught)

loadVars == <<h_pc, h_args, h_todo, h_lines, h_mode, h_loaded, h_parse_msgs,
              h_qsr_content, h_qsr4_content, h_qsr4_mtrace_content,
              h_qsr4_qtrace_str_content, h_report>>

NoFile == [given |-> FALSE, magic |-> TRUE, zlib |-> TRUE, lines |-> <<>>]
File(ls) == [given |-> TRUE, magic |-> TRUE, zlib |-> TRUE, lines |-> ls]

NoReport == [qsr |-> "none", qsr4 |-> "none"]

LoadOff ==
    /\ h_pc = "off" /\ h_args = [qsr |-> NoFile, qsr4 |-> NoFile, msgs |-> FALSE]
    /\ h_todo = <<>> /\ h_lines = <<>> /\ h_mode = 0 /\ h_loaded = FALSE
    /\ h_parse_msgs = FALSE /\ h_qsr_content = {} /\ h_qsr4_content = {}
    /\ h_qsr4_mtrace_content = {} /\ h_qsr4_qtrace_str_content = {}
    /\ h_report = NoReport

\* one call of _snprintf
VARIABLES
    f_pc,      \* "call" before the call, "done" after it, "off" elsewhere
    f_fmt,     \* fmtstr, as the sequence of its pieces
    f_args,    \* fmtargs
    f_out      \* what the call gave: a string, or an exception

fmtVars == <<f_pc, f_fmt, f_args, f_out>>

NoOut == [kind |-> "pending", text |-> ""]

FmtOff == f_pc = "off" /\ f_fmt = <<>> /\ f_args = <<>> /\ f_out = NoOut

\* the options after __init__ (no hash file loaded)
DefaultCfg ==
    [check_crc |-> TRUE, parse_events |-> FALSE, parse_msgs |-> FALSE,
     show_kpi |-> FALSE, qsr_content |-> {}, qsr4_content |-> {},
     qsr4_mtrace_content |-> {}]

Pending == [NoneRes(0, <<>>) EXCEPT !.kind = "pending"]

ParseOff ==
    /\ p_pc = "off" /\ p_payload = <<>> /\ p_crc = "none" /\ p_pkt = <<>>
    /\ p_framed = FALSE /\ p_cfg = DefaultCfg /\ p_res = Pending

\* one call of parse_diag_event, an iteration of its loop at a time
VARIABLES
    e_pc,      \* "call" before the call, "loop" at the test of the while
               \* loop, "done" after the return, "raised" after an exception
    e_pkt,     \* pkt
    e_cfg,     \* the options of the parser
    e_pos,     \* pos
    e_cp,      \* event_pkts
    e_out,     \* event_stdout
    e_ts,      \* ts
    e_res      \* what the call gave

evVars == <<e_pc, e_pkt, e_cfg, e_pos, e_cp, e_out, e_ts, e_res>>

EvOff ==
    /\ e_pc = "off" /\ e_pkt = <<>> /\ e_cfg = DefaultCfg /\ e_pos = 0
    /\ e_cp = <<>> /\ e_out = <<>> /\ e_ts = <<>> /\ e_res = Pending

\* parse_dlf on one DLF file
VARIABLES
    d_pc,          \* "read": at self.io_device.read; "done": parse_dlf returned
    d_content,     \* the bytes of the file
    d_pos,         \* the bytes read so far
    d_oldbuf,      \* oldbuf
    d_dispatched,  \* history: the packets handed to parse_diag, in order
    d_posted,      \* history: the results handed to postprocess_parse_result
    d_reads        \* history: the reads that returned data

dlfVars == <<d_pc, d_content, d_pos, d_oldbuf, d_dispatched, d_posted, d_reads>>

DlfOff ==
    /\ d_pc = "off" /\ d_content = <<>> /\ d_pos = 0 /\ d_oldbuf = <<>>
    /\ d_dispatched = <<>> /\ d_posted = <<>> /\ d_reads = 0

(***************************************************************************)
(* ParseSpec: parse_diag on frames drawn from a bounded set                *)
(***************************************************************************)
\* fill bytes of the text fields of a version response; 125 and 94 make the
\* payload (and its CRC) need HDLC escaping
FillBytes == {65, 125, 94}

\* a version response: opcode and 46 bytes of date/time/chipset fields
VersionPayload(b, n) == <<DIAG_VERNO_F>> \o [i \in 1..n |-> b]

\* a multi-radio envelope '<BBHL' with the radio-id field f (4 bytes)
Envelope(f, inner) == <<DIAG_MULTI_RADIO_CMD_F, 1, 0, 0>> \o f \o inner

\* radio-id fields: 0, 1, 2, 3, 256, 2^31 - 1 (the largest value the model
\* checker's integers hold; python compares larger ones the same way)
RadioIdFields ==
    {<<0, 0, 0, 0>>, <<1, 0, 0, 0>>, <<2, 0, 0, 0>>, <<3, 0, 0, 0>>,
     <<0, 1, 0, 0>>, <<255, 255, 255, 127>>}

\* the longest run of unknown-opcode bytes offered as a payload
MaxJunk == 3

\* the eight bytes of a full timestamp
FullTs == <<1, 2, 3, 4, 5, 6, 7, 8>>

\* one entry of an event report: the event word (id, payload_len, ts_trunc),
\* a 64-bit or a 16-bit timestamp and the payload bytes
EventEntry(e) ==
    LET word == e.id + 8192 * e.len + (IF e.full THEN 0 ELSE 32768)
    IN <<word % 256, word \div 256>> \o (IF e.full THEN FullTs ELSE <<0, 0>>)
       \o e.payload

RECURSIVE EventEntries(_)
EventEntries(es) ==
    IF es = <<>> THEN <<>> ELSE EventEntry(Head(es)) \o EventEntries(Tail(es))

\* an event report: '<BH' header and the packed entries
EventReport(es) ==
    <<DIAG_EVENT_REPORT_F, Len(EventEntries(es)), 0>> \o EventEntries(es)

\* the entries offered: an unknown id with a 2-byte payload and with a byte
\* string, FAILURE events, a suppressed id, and registered ids, with
\* truncated and with full timestamps
EventKinds ==
    {[id |-> 291, len |-> 2, payload |-> <<16, 32>>, full |-> FALSE],
     [id |-> 291, len |-> 3, payload |-> <<2, 9, 9>>, full |-> FALSE],
     [id |-> 1608, len |-> 0, payload |-> <<>>, full |-> FALSE],
     [id |-> 1613, len |-> 1, payload |-> <<7>>, full |-> FALSE],
     [id |-> 2, len |-> 1, payload |-> <<5>>, full |-> FALSE],
     [id |-> 1606, len |-> 1, payload |-> <<4>>, full |-> FALSE],
     [id |-> 1609, len |-> 2, payload |-> <<4, 131>>, full |-> FALSE],
     [id |-> 1606, len |-> 1, payload |-> <<3>>, full |-> TRUE],
     [id |-> 1606, len |-> 1, payload |-> <<6>>, full |-> FALSE],
     [id |-> 291, len |-> 0, payload |-> <<>>, full |-> TRUE]}

\* the batches offered: one or two entries
EventBatches ==
    {<<e>> : e \in EventKinds} \cup {<<e, f>> : e, f \in EventKinds}

\* the header '<BBBBQHHL' of an extended message with n arguments
MsgHeader(op, n) == <<op, 0, n, 0>> \o [i \in 1..16 |-> 0]

\* the header '<BBBBQLH' of a QSR4 terse message
Qsr4Header(num_size_args, hash) ==
    <<DIAG_QSR4_EXT_MSG_TERSE_F, 0, num_size_args, 0>> \o [i \in 1..8 |-> 0]
    \o hash \o <<0, 0>>

\* the header '<B BBBBBBB L L' of a QSH trace message
QshHeader(arg_count, hash) ==
    <<DIAG_QSH_TRACE_PAYLOAD_F, 0, 0, 0, arg_count, 0, 0, 0, 0, 0, 0, 0>> \o hash

\* the header '<BBHHHQ' of a log item: length1, length2, log id, timestamp
LogHeader(length2, log_id) ==
    <<DIAG_LOG_F, 0, length2, 0, length2, 0, log_id % 256, log_id \div 256>>
    \o [i \in 1..8 |-> 0]

\* hashes on the wire: 0xDEADBEEF (in no store) and 0x00000001 (in the stores
\* of a parser that loaded hash files)
DeadBeef == <<239, 190, 173, 222>>
KnownHash == <<1, 0, 0, 0>>

\* the arguments 1 and 2 as two little-endian 32-bit words
Args12 == <<1, 0, 0, 0, 2, 0, 0, 0>>

\* the keys of a template map: those of a loaded file, or none
Store(msgs) == IF msgs = "loaded" THEN {KnownHash} ELSE {}

MsgPayloads ==
    {<<DIAG_EXT_MSG_F, 0, 0>>,
     MsgHeader(DIAG_EXT_MSG_F, 0) \o <<65, 0, 66, 0>>,
     MsgHeader(DIAG_EXT_MSG_F, 2) \o Args12 \o <<65, 0>>,
     <<DIAG_EXT_MSG_TERSE_F, 0, 0>>,
     <<DIAG_QSR_EXT_MSG_TERSE_F, 0, 0>>,
     <<DIAG_QSR4_EXT_MSG_TERSE_F, 0, 0>>,
     Qsr4Header(36, DeadBeef) \o <<1, 0, 0, 0>>,
     Qsr4Header(5, DeadBeef),
     <<DIAG_QSH_TRACE_PAYLOAD_F, 0, 0>>}
    \cup {MsgHeader(DIAG_QSR_EXT_MSG_TERSE_F, 2) \o h \o Args12 : h \in {DeadBeef, KnownHash}}
    \cup {MsgHeader(DIAG_QSR_EXT_MSG_TERSE_F, 2) \o h \o <<1, 0, 0, 0>> : h \in {DeadBeef, KnownHash}}
    \cup {Qsr4Header(36, h) \o Args12 : h \in {DeadBeef, KnownHash}}
    \cup {Qsr4Header(0, h) : h \in {DeadBeef, KnownHash}}
    \cup {QshHeader(19, h) : h \in {DeadBeef, KnownHash}}
    \cup {QshHeader(20, h) : h \in {DeadBeef, KnownHash}}

OtherPayloads ==
    {<<DIAG_LOG_F, 0, 0>>,
     LogHeader(12, 45248), LogHeader(13, 45248), LogHeader(14, 45248) \o <<7, 7>>,
     LogHeader(12, 45248) \o <<7, 7>>, LogHeader(12, 1), LogHeader(13, 1),
     <<DIAG_EXT_BUILD_ID_F, 0, 0>>,
     <<DIAG_EXT_BUILD_ID_F>> \o [i \in 1..11 |-> 0] \o <<65, 66, 0, 0>>,
     <<DIAG_EXT_MSG_CONFIG_F, 0, 0>>,
     <<DIAG_EXT_MSG_CONFIG_F, 1, 0, 0, 0, 0, 0, 0>>,
     <<DIAG_SECURE_LOG_F, 0, 0>>,
     <<DIAG_SECURE_LOG_F>> \o [i \in 1..19 |-> 0] \o <<4, 0, 0, 0>>}

Payloads ==
    {VersionPayload(b, 46) : b \in FillBytes}
    \cup {VersionPayload(65, 45), VersionPayload(65, 48)}
    \cup {Envelope(f, VersionPayload(b, 46)) : f \in RadioIdFields, b \in {65, 125}}
    \cup {Envelope(f, VersionPayload(65, 45)) : f \in RadioIdFields}
    \cup {Envelope(f, Envelope(g, VersionPayload(65, 46))) :
            f \in {<<1, 0, 0, 0>>, <<2, 0, 0, 0>>}, g \in RadioIdFields}
    \cup {SubSeq(Envelope(<<2, 0, 0, 0>>, <<>>), 1, n) : n \in 1..8}
    \cup {[i \in 1..n |-> 65] : n \in 1..MaxJunk}
    \cup {<<DIAG_EVENT_REPORT_F>>, <<DIAG_EVENT_REPORT_F, 0, 0>>,
          <<DIAG_EVENT_REPORT_F, 0, 0, 70, 166, 0, 0, 4>>,
          <<DIAG_EVENT_REPORT_F, 0, 0, 70, 134>>}
    \cup {<<DIAG_LOG_CONFIG_F, 0, 0, 0, 1, 0, 0, 0>>, <<DIAG_LOG_CONFIG_F, 0, 0>>}
    \cup MsgPayloads \cup OtherPayloads
    \cup {EventReport(es) : es \in EventBatches}

Invert(s) == [i \in 1..Len(s) |-> 255 - s[i]]

\* the bytes on the wire between two 0x7E for a payload and a CRC variant
Wire(payload, crc) ==
    IF crc = "good" THEN Escape(payload \o CrcTail(payload))
    ELSE Escape(payload \o Invert(CrcTail(payload)))

ParseInit ==
    /\ p_pc = "call"
    /\ p_payload \in Payloads
    /\ p_framed \in BOOLEAN
    /\ p_crc \in (IF p_framed THEN {"good", "flipped"} ELSE {"none"})
    /\ p_pkt = (IF p_framed THEN Wire(p_payload, p_crc) ELSE p_payload)
    /\ \E cc, ev, kpi \in BOOLEAN, msgs \in {"off", "on", "loaded"} :
          p_cfg = [DefaultCfg EXCEPT !.check_crc = cc, !.parse_events = ev,
                                     !.show_kpi = kpi,
                                     !.parse_msgs = (msgs # "off"),
                                     !.qsr_content = Store(msgs),
                                     !.qsr4_content = Store(msgs),
                                     !.qsr4_mtrace_content = Store(msgs)]
    /\ p_res = Pending

\* result = self.parse_diag(pkt)  /  parse_diag(pkt, has_crc=False, hdlc_encoded=False)
ParseCall ==
    /\ p_pc = "call"
    /\ p_res' = parse_diag(p_pkt, p_framed, p_framed, p_cfg)
    /\ p_pc' = "done"
    /\ UNCHANGED <<p_payload, p_crc, p_pkt, p_framed, p_cfg>>
    /\ UNCHANGED <<runVars, postVars, windowVars, negVars, loadVars, fmtVars, evVars, dlfVars>>


(***************************************************************************)
(* The live session: scat_main from the first run_diag call on.            *)
(***************************************************************************)

RunOff ==
    /\ r_pc = "off" /\ r_block = FALSE /\ r_qmdl = FALSE /\ r_run = 1
    /\ r_writer = FALSE /\ r_cfg = DefaultCfg /\ r_buf = <<>> /\ r_oldbuf = <<>>
    /\ r_loop = FALSE /\ r_stop = FALSE /\ r_stream = <<>> /\ r_dispatched = <<>>
    /\ r_raw = <<>> /\ r_post = <<>> /\ r_lastlen = -1 /\ r_stopsent = <<>>

\* bounds of the session model: bytes a call reads in all, bytes per read
MaxStream == 6
MaxRead == 3

\* the bytes the device delivers: the delimiter and the event-report opcode.
\* Frames of 0x60 bytes give every outcome of parse_diag: None (shorter
\* than 3 bytes, or events not parsed), a dictionary (5 and 6 bytes) and an
\* exception (3 and 4 bytes with events parsed).
StreamBytes == {HDLC_FLAG, DIAG_EVENT_REPORT_F}

Chunks == UNION {[1..n -> StreamBytes] : n \in 1..MaxRead}

\* bytes.split(b'\x7e'): the segments between delimiters, the last one being
\* what follows the last delimiter (empty when the buffer ends with one)
RECURSIVE SplitFrom(_, _, _, _)
SplitFrom(s, i, cur, acc) ==
    IF i > Len(s) THEN Append(acc, cur)
    ELSE IF s[i] = HDLC_FLAG THEN SplitFrom(s, i + 1, <<>>, Append(acc, cur))
    ELSE SplitFrom(s, i + 1, Append(cur, s[i]), acc)

split(s) == SplitFrom(s, 1, <<>>, <<>>)

Last(s) == s[Len(s)]
Front(s) == SubSeq(s, 1, Len(s) - 1)

\* run_diag, lines 570-576: the segments to dispatch and the new oldbuf
Atoms(buf) ==
    IF Len(buf) < 1 \/ Last(buf) # HDLC_FLAG
    THEN [atom |-> Front(split(buf)), oldbuf |-> Last(split(buf))]
    ELSE [atom |-> split(buf), oldbuf |-> <<>>]

\* run_diag, lines 578-587: the for loop over the segments.  st holds the
\* histories; a raising parse_diag ends the loop (and run_diag) at once,
\* before the raw write of that segment.
RECURSIVE DispatchAll(_, _, _, _, _)
DispatchAll(atom, i, st, writer, cfg) ==
    IF i > Len(atom) THEN st
    ELSE IF Len(atom[i]) = 0 THEN DispatchAll(atom, i + 1, st, writer, cfg)
    ELSE LET res == parse_diag(atom[i], TRUE, TRUE, cfg)
             d == Append(st.dispatched, atom[i])
         IN IF res.kind = "raise"
            THEN [st EXCEPT !.dispatched = d, !.raised = TRUE]
            ELSE DispatchAll(atom, i + 1,
                   [st EXCEPT !.dispatched = d,
                              !.raw = IF writer THEN Append(@, Append(atom[i], HDLC_FLAG))
                                      ELSE @,
                              !.post = IF res.kind = "dict" THEN Append(@, atom[i])
                                       ELSE @],
                   writer, cfg)


\* scat_main, lines 250-260, up to the first run_diag call: the handler is
\* installed, then run_diag starts with oldbuf = b'' and loop = True
RunInit ==
    /\ r_pc = "read"
    /\ r_block \in BOOLEAN
    /\ r_qmdl \in BOOLEAN
    /\ r_run = 1
    /\ r_writer = r_qmdl
    /\ \E ev \in BOOLEAN : r_cfg = [DefaultCfg EXCEPT !.parse_events = ev]
    /\ r_buf = <<>> /\ r_oldbuf = <<>> /\ r_loop = TRUE /\ r_stop = FALSE
    /\ r_stream = <<>> /\ r_dispatched = <<>> /\ r_raw = <<>> /\ r_post = <<>>
    /\ r_lastlen = -1 /\ r_stopsent = <<>>

\* buf = self.io_device.read(0x1000) returning data
ReadData ==
    /\ r_pc = "read"
    /\ \E c \in Chunks :
         /\ Len(r_stream) + Len(c) <= MaxStream
         /\ r_buf' = c
         /\ r_stream' = r_stream \o c
    /\ r_pc' = "got"
    /\ UNCHANGED <<r_block, r_qmdl, r_run, r_writer, r_cfg, r_oldbuf, r_loop,
                   r_stop, r_dispatched, r_raw, r_post, r_lastlen, r_stopsent>>
    /\ UNCHANGED <<parseVars, postVars, windowVars, negVars, loadVars, fmtVars, evVars, dlfVars>>

\* the read returning no byte (timeout of a blocking device, or end of input)
ReadEmpty ==
    /\ r_pc = "read"
    /\ r_buf' = <<>>
    /\ r_pc' = "got"
    /\ UNCHANGED <<r_block, r_qmdl, r_run, r_writer, r_cfg, r_oldbuf, r_loop,
                   r_stop, r_stream, r_dispatched, r_raw, r_post, r_lastlen,
                   r_stopsent>>
    /\ UNCHANGED <<parseVars, postVars, windowVars, negVars, loadVars, fmtVars, evVars, dlfVars>>

\* the read raising SerialException / OSError: run_diag logs and sys.exit(1)
ReadFail ==
    /\ r_pc = "read"
    /\ r_pc' = "exit1"
    /\ UNCHANGED <<r_block, r_qmdl, r_run, r_writer, r_cfg, r_buf, r_oldbuf,
                   r_loop, r_stop, r_stream, r_dispatched, r_raw, r_post,
                   r_lastlen, r_stopsent>>
    /\ UNCHANGED <<parseVars, postVars, windowVars, negVars, loadVars, fmtVars, evVars, dlfVars>>

\* a faulty variant of LoopAfterRead: the zero-byte read is ignored
LoopAfterRead_Ignored(buf, loop) == loop

\* run_diag, lines 565-569: the loop flag after a read on a device that does
\* not block (`loop = False` on a zero-byte read)
LoopAfterRead(buf, loop) == IF Len(buf) = 0 THEN FALSE ELSE loop

\* run_diag, lines 565-587: the rest of one iteration of the while loop
Iterate ==
    /\ r_pc = "got"
    /\ r_lastlen' = Len(r_buf)
    /\ IF Len(r_buf) = 0 /\ r_block
       THEN \* continue
            /\ r_pc' = "read"
            /\ UNCHANGED <<r_oldbuf, r_loop, r_dispatched, r_raw, r_post>>
       ELSE LET loop2 == LoopAfterRead(r_buf, r_loop)
                a == Atoms(r_oldbuf \o r_buf)
                st == DispatchAll(a.atom, 1,
                        [dispatched |-> r_dispatched, raw |-> r_raw,
                         post |-> r_post, raised |-> FALSE],
                        r_writer, r_cfg)
            IN /\ r_loop' = loop2
               /\ r_oldbuf' = a.oldbuf
               /\ r_dispatched' = st.dispatched
               /\ r_raw' = st.raw
               /\ r_post' = st.post
               /\ r_pc' = IF st.raised THEN "crashed"
                          ELSE IF loop2 THEN "read" ELSE "returned"
    /\ UNCHANGED <<r_block, r_qmdl, r_run, r_writer, r_cfg, r_buf, r_stop,
                   r_stream, r_stopsent>>
    /\ UNCHANGED <<parseVars, postVars, windowVars, negVars, loadVars, fmtVars, evVars, dlfVars>>

\* sigint_handler: only sets the flag
SigInt ==
    /\ r_pc \in {"read", "got", "returned"}
    /\ ~r_stop
    /\ r_stop' = TRUE
    /\ UNCHANGED <<r_pc, r_block, r_qmdl, r_run, r_writer, r_cfg, r_buf,
                   r_oldbuf, r_loop, r_stream, r_dispatched, r_raw, r_post,
                   r_lastlen, r_stopsent>>
    /\ UNCHANGED <<parseVars, postVars, windowVars, negVars, loadVars, fmtVars, evVars, dlfVars>>

\* scat_main, lines 254-259: with --qmdl the call with the raw writer is
\* followed by the call of the else branch, without a writer
SecondRun ==
    /\ r_pc = "returned" /\ r_run = 1 /\ r_qmdl
    /\ r_run' = 2
    /\ r_writer' = FALSE
    /\ r_pc' = "read"
    /\ r_buf' = <<>> /\ r_oldbuf' = <<>> /\ r_loop' = TRUE
    /\ r_stream' = <<>> /\ r_dispatched' = <<>> /\ r_raw' = <<>> /\ r_post' = <<>>
    /\ r_lastlen' = -1
    /\ UNCHANGED <<r_block, r_qmdl, r_cfg, r_stop, r_stopsent>>
    /\ UNCHANGED <<parseVars, postVars, windowVars, negVars, loadVars, fmtVars, evVars, dlfVars>>

\* scat_main, line 261, and stop_diag: the three teardown requests
StopRequests == <<"event_report_off", "log_config_disable", "ext_msg_config_clear">>

StopDiag ==
    /\ r_pc = "returned" /\ (r_run = 2 \/ ~r_qmdl)
    /\ r_stopsent' = StopRequests
    /\ r_pc' = "stopped"
    /\ UNCHANGED <<r_block, r_qmdl, r_run, r_writer, r_cfg, r_buf, r_oldbuf,
                   r_loop, r_stop, r_stream, r_dispatched, r_raw, r_post,
                   r_lastlen>>
    /\ UNCHANGED <<parseVars, postVars, windowVars, negVars, loadVars, fmtVars, evVars, dlfVars>>


(***************************************************************************)
(* The post-processor: QualcommParser.postprocess_parse_result.            *)
(* Time is counted in ticks; time.time() is read as `now`, one instant per *)
(* call.  A stdout line is a record Line(k, v): k is the fixed text the    *)
(* code's regular expressions and startswith() tests look at, v the values *)
(* rendered after it.                                                      *)
(***************************************************************************)

\* bounds of the post-processor model
TicksPerSecond == 2
MaxTicks == 5
MaxCalls == 3
MaxBytes == 2

Radios == {0, 1}

\* the clock starts later than 2 s after the epoch, as any real clock does
Epoch == 2 * TicksPerSecond + 1

NoLine == Line("None", <<>>)

\* the entries of a radio before anything was stored for it: dict.get(radio_id)
\* gives None, dict.get(radio_id, 0) gives 0; window_start -1 stands for
\* `radio_id not in self._throughput_window_start`; a slot is <<>> for None
NewRadio ==
    [last_kpi_line |-> NoLine, lte_rrc_state |-> <<"None">>,
     last_scell_line |-> NoLine, last_scell_emit_time |-> 0,
     last_dl_mcs_emit_time |-> 0, throughput_dl_bytes |-> 0,
     throughput_ul_bytes |-> 0, throughput_window_start |-> -1,
     last_ul_mcs |-> <<>>, last_tx_power_dbm |-> <<>>, last_ta_kpi |-> <<>>,
     last_combined_kpi_emit_time |-> 0]

NoResult ==
    [radio_id |-> -1, stdout |-> <<>>, cp |-> <<>>, up |-> <<>>, layer |-> "",
     dl_bytes |-> -1, ul_bytes |-> -1, ts |-> -1]

PostOff ==
    /\ now = 0
    /\ post_cfg = [show_kpi |-> FALSE, combine_stdout |-> FALSE, no_gsmtap |-> FALSE,
                   layers |-> {}, feed |-> "plain"]
    /\ per_radio = [r \in Radios |-> NewRadio]
    /\ calls = 0 /\ result = NoResult /\ emitted = <<>> /\ written = <<>>
    /\ comb_times = [r \in Radios |-> <<>>]
    /\ dl_times = [r \in Radios |-> <<>>]
    /\ scell_times = [r \in Radios |-> <<>>]

\* the tests the code applies to a line
IsDlMcs(l) == l.k = "MHz BW MCS="                 \* re.match(r'(\d+(?:\.\d+)?)MHz BW MCS=', l)
IsUlMcs(l) == l.k = "LTE KPI UL: MCS="            \* re.match(r'LTE KPI UL: MCS=(\d+)', l)
IsTxPower(l) == l.k = "LTE KPI TX: est. TX power=" \* re.match(r'LTE KPI TX: est\. TX power=(-?\d+) dBm', l)
IsTaKpi(l) == l.k = "LTE KPI: TA="                \* l.startswith('LTE KPI: TA=') / re.match(r'LTE KPI: TA=(\d+)', l)
IsRach(l) == l.k = "LTE KPI RACH:"                \* l.startswith('LTE KPI RACH:')
IsScell(l) == l.k = "LTE Primary Cell: EARFCN:"   \* l.startswith('LTE Primary Cell: EARFCN:')
IsScellConnected(l) == l.k = "LTE Primary Cell (Connected):"
IsRrcState(l) == l.k = "LTE RRC State: "          \* re.match(r'LTE RRC State: (.+)', l)
IsCombinedKpi(l) == l.k = "LTE KPI: UL MCS="      \* l.startswith('LTE KPI: UL MCS=')
IsServingCell(l) == IsScell(l) \/ IsScellConnected(l)
IsThroughput(l) == l.k = "LTE throughput: "
IsBlank(l) == l.k = ""                            \* not l.strip()

Connected == <<"RRC_CONNECTED">>

\* a faulty variant of Emission: every line is labelled `Radio 0`
Emission_AsRadioZero(rid, l, via, rs) ==
    [radio |-> 0, line |-> l, via |-> via, rrc |-> rs.lte_rrc_state]

\* one emission: the line, the radio, the sink and the RRC state tracked for
\* the radio at that moment.  "print" is print() plus _send_json_udp,
\* "refresh" the same for the cached serving-cell line, "gsmtap" is
\* _send_json_udp plus the Osmocore log record of combined mode.
Emission(rid, l, via, rs) ==
    [radio |-> rid, line |-> l, via |-> via, rrc |-> rs.lte_rrc_state]

\* str(x) if x is not None else '-'
SlotStr(slot) == IF slot = <<>> THEN "-" ELSE ToString(slot[1])

\* a faulty variant of RefreshDue: two seconds are enough
RefreshDue_AtTwoSeconds(t, last) == t - last >= 2 * TicksPerSecond

\* lines 842 and 976: more than 2.0 s since the last serving-cell line
RefreshDue(t, last) == t - last > 2 * TicksPerSecond

\* a faulty variant of CombinedDue: the combined line is not rate limited
CombinedDue_Always(t, last) == TRUE

\* _maybe_emit_combined_kpi, line 832: the negation of the early return
CombinedDue(t, last) == ~(t - last < TicksPerSecond)

\* a faulty variant: the combined line is put on record as the last line
maybe_emit_combined_kpi_OnRecord(acc, rid, t) ==
    LET rs == acc.rs
    IN IF ~CombinedDue(t, rs.last_combined_kpi_emit_time) THEN acc
       ELSE IF rs.last_ul_mcs = <<>> /\ rs.last_tx_power_dbm = <<>>
               /\ rs.last_ta_kpi = <<>> THEN acc
       ELSE LET line == Line("LTE KPI: UL MCS=",
                             <<SlotStr(rs.last_ul_mcs), SlotStr(rs.last_tx_power_dbm),
                               SlotStr(rs.last_ta_kpi)>>)
                rs2 == [rs EXCEPT !.last_combined_kpi_emit_time = t,
                                  !.last_kpi_line = line]
            IN [rs |-> rs2, out |-> Append(acc.out, Emission(rid, line, "print", rs2))]

\* QualcommParser._maybe_emit_combined_kpi; acc = [rs, out]
maybe_emit_combined_kpi(acc, rid, t) ==
    LET rs == acc.rs
    IN IF ~CombinedDue(t, rs.last_combined_kpi_emit_time) THEN acc
       ELSE IF rs.last_ul_mcs = <<>> /\ rs.last_tx_power_dbm = <<>>
               /\ rs.last_ta_kpi = <<>> THEN acc
       ELSE LET refresh == /\ rs.lte_rrc_state = Connected
                           /\ rs.last_scell_line # NoLine
                           /\ RefreshDue(t, rs.last_scell_emit_time)
                rs1 == IF refresh THEN [rs EXCEPT !.last_scell_emit_time = t] ELSE rs
                out1 == IF refresh
                        THEN Append(acc.out, Emission(rid, rs.last_scell_line, "refresh", rs))
                        ELSE acc.out
                line == Line("LTE KPI: UL MCS=",
                             <<SlotStr(rs.last_ul_mcs), SlotStr(rs.last_tx_power_dbm),
                               SlotStr(rs.last_ta_kpi)>>)
                rs2 == [rs1 EXCEPT !.last_combined_kpi_emit_time = t]
            IN [rs |-> rs2, out |-> Append(out1, Emission(rid, line, "print", rs2))]

\* a faulty variant of DlMcsDue: the DL-MCS line is not rate limited
DlMcsDue_Always(t, last) == TRUE

\* postprocess_parse_result, line 938: the negation of the `continue`
DlMcsDue(t, last) == ~(t - last < 2 * TicksPerSecond)

\* postprocess_parse_result, lines 926-983: one line of the stdout of a result
\* when combine_stdout is off; acc = [rs, out]
ProcessLine(acc, rid, l, t, cfg) ==
    LET rs == acc.rs
        kpi == cfg.show_kpi
        connected == rs.lte_rrc_state = Connected
    IN  IF IsBlank(l) THEN acc
        ELSE IF kpi /\ ~IsRach(l) /\ l = rs.last_kpi_line THEN acc
        ELSE IF kpi /\ ~connected /\ (IsDlMcs(l) \/ IsTaKpi(l)) THEN acc
        ELSE IF kpi /\ IsDlMcs(l) /\ ~DlMcsDue(t, rs.last_dl_mcs_emit_time) THEN acc
        ELSE
          LET rs3 == IF kpi /\ IsDlMcs(l)
                     THEN [rs EXCEPT !.last_dl_mcs_emit_time = t] ELSE rs
          IN  IF kpi /\ connected /\ IsUlMcs(l)
              THEN maybe_emit_combined_kpi(
                     [acc EXCEPT !.rs = [rs3 EXCEPT !.last_ul_mcs = l.v]], rid, t)
              ELSE IF kpi /\ connected /\ IsTxPower(l)
              THEN maybe_emit_combined_kpi(
                     [acc EXCEPT !.rs = [rs3 EXCEPT !.last_tx_power_dbm = l.v]], rid, t)
              ELSE IF kpi /\ connected /\ IsTaKpi(l)
              THEN maybe_emit_combined_kpi(
                     [acc EXCEPT !.rs = [rs3 EXCEPT !.last_ta_kpi = l.v]], rid, t)
              ELSE IF kpi /\ IsScell(l) /\ t - rs3.last_scell_emit_time < TicksPerSecond
              THEN [acc EXCEPT !.rs = [rs3 EXCEPT !.last_scell_line = l]]
              ELSE
                LET rs5 == IF kpi /\ IsScell(l)
                           THEN [rs3 EXCEPT !.last_scell_emit_time = t] ELSE rs3
                    rs6 == IF IsRrcState(l)
                           THEN [rs5 EXCEPT !.lte_rrc_state = l.v] ELSE rs5
                    rs7 == IF IsScell(l) \/ IsScellConnected(l)
                           THEN [rs6 EXCEPT !.last_scell_line = l,
                                            !.last_scell_emit_time =
                                               IF ~(kpi /\ IsScell(l)) THEN t ELSE @]
                           ELSE rs6
                    refresh == /\ kpi /\ rs7.lte_rrc_state = Connected
                               /\ rs7.last_scell_line # NoLine
                               /\ (IsDlMcs(l) \/ IsUlMcs(l) \/ IsTxPower(l)
                                   \/ IsCombinedKpi(l))
                               /\ RefreshDue(t, rs7.last_scell_emit_time)
                    rs8 == IF refresh THEN [rs7 EXCEPT !.last_scell_emit_time = t]
                           ELSE rs7
                    out8 == IF refresh
                            THEN Append(acc.out,
                                        Emission(rid, rs7.last_scell_line, "refresh", rs7))
                            ELSE acc.out
                    rs9 == IF kpi THEN [rs8 EXCEPT !.last_kpi_line = l] ELSE rs8
                IN [rs |-> rs9, out |-> Append(out8, Emission(rid, l, "print", rs9))]

\* postprocess_parse_result, lines 904-923: one line when combine_stdout is on
CombineLine(acc, rid, l, t, cfg) ==
    IF cfg.show_kpi /\ l = acc.rs.last_kpi_line THEN acc
    ELSE LET rs1 == IF cfg.show_kpi THEN [acc.rs EXCEPT !.last_kpi_line = l]
                    ELSE acc.rs
         IN [rs |-> rs1, out |-> Append(acc.out, Emission(rid, l, "gsmtap", rs1))]

\* the for loop over parse_result['stdout'].split('\n')
RECURSIVE StdoutLines(_, _, _, _, _, _)
StdoutLines(acc, rid, lines, i, t, cfg) ==
    IF i > Len(lines) THEN acc
    ELSE StdoutLines(IF cfg.combine_stdout
                     THEN CombineLine(acc, rid, lines[i], t, cfg)
                     ELSE ProcessLine(acc, rid, lines[i], t, cfg),
                     rid, lines, i + 1, t, cfg)

\* 'LTE throughput: {:.2f} Mbps'.format(bits / 1e6): the text of the number
\* with two decimals.  A tie (bits ending in 5000) is rounded by its binary
\* fraction in the code and upwards here; the byte counts of the model give
\* no tie.
Mbps2(bits) ==
    LET h == (bits + 5000) \div 10000
    IN ToString(h \div 100) \o "." \o ToString((h % 100) \div 10) \o ToString(h % 10)

\* a faulty variant of WindowDue: the window closes as soon as it is open
WindowDue_Always(t, start, second) == TRUE

\* postprocess_parse_result, line 871: the window has been open for 1.0 s;
\* second is the number of clock units in one second
WindowDue(t, start, second) == t - start >= second

\* postprocess_parse_result, lines 865-881: the throughput accumulator
Throughput(acc, rid, res, t, cfg, second) ==
    IF ~(cfg.show_kpi /\ (res.dl_bytes >= 0 \/ res.ul_bytes >= 0)) THEN acc
    ELSE LET rs == acc.rs
             dl == rs.throughput_dl_bytes + (IF res.dl_bytes >= 0 THEN res.dl_bytes ELSE 0)
             ul == rs.throughput_ul_bytes + (IF res.ul_bytes >= 0 THEN res.ul_bytes ELSE 0)
             start == IF rs.throughput_window_start = -1 THEN t
                      ELSE rs.throughput_window_start
             rs1 == [rs EXCEPT !.throughput_dl_bytes = dl, !.throughput_ul_bytes = ul,
                               !.throughput_window_start = start]
         IN IF WindowDue(t, start, second)
            THEN [rs |-> [rs1 EXCEPT !.throughput_dl_bytes = 0,
                                     !.throughput_ul_bytes = 0,
                                     !.throughput_window_start = t],
                  out |-> IF rs.lte_rrc_state = Connected
                          THEN Append(acc.out,
                                 Emission(rid, Line("LTE throughput: ",
                                                    <<Mbps2(dl * 8 + ul * 8)>>),
                                          "print", rs1))
                          ELSE acc.out]
            ELSE [acc EXCEPT !.rs = rs1]

\* the throughput lines among the emissions out, in order
ThroughputLines(out) ==
    SelectSeq([i \in 1..Len(out) |-> out[i].line], IsThroughput)

\* one call of writer.write_cp or writer.write_up: the bytes, the radio and
\* the timestamp; log is the stdout line of an Osmocore log record (line 923)
\* and NoLine for the bytes of a result
WriterCall(kind, data, log, rid, ts) ==
    [kind |-> kind, data |-> data, log |-> log, radio |-> rid, ts |-> ts]

\* lines 860-863: the timestamp of the result, or the time of the call
Timestamp(res, t) == IF res.ts >= 0 THEN res.ts ELSE t

\* a faulty variant of Writes: the layer of the result is not looked at
Writes_AnyLayer(res, rid, t, cfg) ==
    [i \in 1..Len(res.cp) |->
        WriterCall("cp", res.cp[i], NoLine, rid, Timestamp(res, t))]
    \o [i \in 1..Len(res.up) |->
        WriterCall("up", res.up[i], NoLine, rid, Timestamp(res, t))]

\* postprocess_parse_result, lines 883-899: cp and up records go to the
\* writer unless the result names a layer that is not selected
Writes(res, rid, t, cfg) ==
    IF res.layer = "" \/ res.layer \in cfg.layers
    THEN [i \in 1..Len(res.cp) |->
             WriterCall("cp", res.cp[i], NoLine, rid, Timestamp(res, t))]
         \o [i \in 1..Len(res.up) |->
             WriterCall("up", res.up[i], NoLine, rid, Timestamp(res, t))]
    ELSE <<>>

\* line 923: in combined mode each line sent out is also written as a log
\* record, gsmtap_hdr + osmocore_log_hdr + l.encode('utf-8')
LogWrites(out, rid, ts) ==
    LET logs == SelectSeq(out, LAMBDA e : e.via = "gsmtap")
    IN [i \in 1..Len(logs) |-> WriterCall("cp", "osmocore log", logs[i].line, rid, ts)]

\* the stdout lines of the model.  The decoders render the KPI lines and the
\* RRC state line only when show_kpi is set (diaglteeventparser.py, line 110).
Compile == Line("Compile", <<65>>)
Blank == Line("", <<>>)
StateConnected == Line("LTE RRC State: ", RrcStateText(4))
StateIdle == Line("LTE RRC State: ", RrcStateText(2))
DlMcs(n) == Line("MHz BW MCS=", <<10, n>>)
UlMcs == Line("LTE KPI UL: MCS=", <<15>>)
TxPower == Line("LTE KPI TX: est. TX power=", <<7>>)
TaKpi == Line("LTE KPI: TA=", <<12>>)
Rach == Line("LTE KPI RACH:", <<>>)
Scell == Line("LTE Primary Cell: EARFCN:", <<100>>)
ScellConnected == Line("LTE Primary Cell (Connected):", <<100>>)

\* a result with stdout lines only, for the radio-id key r (-1: no key)
Says(r, lines) == [NoResult EXCEPT !.radio_id = r, !.stdout = lines]

\* what the modem's enabled log items and events make the decoders produce
\* in a session: the result dictionaries handed to the post-processor
FeedNames == {"mcs", "kpi", "traffic", "plain", "events"}

\* an LTE_RRC_STATE_CHANGE entry with the payload a, and a radio link failure
StateChange(a) == [id |-> 1606, len |-> 1, payload |-> <<a>>, full |-> FALSE]
RadioLinkFailure == [id |-> 1608, len |-> 0, payload |-> <<>>, full |-> FALSE]

\* the event batches of the feed "events"
StateBatches ==
    {<<StateChange(4)>>, <<StateChange(2)>>, <<StateChange(6)>>,
     <<StateChange(4), StateChange(2)>>, <<StateChange(2), StateChange(4)>>,
     <<StateChange(4), RadioLinkFailure>>}

\* the options of the parser in a session with events enabled
ParserCfg(kpi) == [DefaultCfg EXCEPT !.parse_events = TRUE, !.show_kpi = kpi]

\* the dictionary parse_diag returned as postprocess_parse_result reads it:
\* the keys 'radio_id', 'stdout', 'cp' and 'ts' (every packet timestamp is 1
\* on the clock of this model)
AsParseResult(res) ==
    [NoResult EXCEPT !.radio_id = res.radio_id, !.stdout = res.stdout,
                     !.cp = res.cp, !.ts = IF res.ts = <<>> THEN -1 ELSE 1]

\* run_diag and parse_dlf: parse_result = self.parse_diag(...) for the event
\* report of a batch, bare or in the multi-radio envelope of radio 1
EventResultOf(es, enveloped, kpi) ==
    AsParseResult(parse_diag(IF enveloped THEN Envelope(<<2, 0, 0, 0>>, EventReport(es))
                             ELSE EventReport(es),
                             FALSE, FALSE, ParserCfg(kpi)))

PostInputs(f) ==
    CASE f = "mcs" ->
           {Says(r, <<l>>) : r \in {-1, 1},
                             l \in {StateConnected, StateIdle, DlMcs(5), DlMcs(6), Scell}}
           \cup {Says(0, <<ScellConnected>>)}
      [] f = "kpi" ->
           {Says(r, <<l>>) : r \in {-1, 1},
                             l \in {StateConnected, UlMcs, TxPower, TaKpi, Rach}}
           \cup {Says(-1, <<Rach, Rach>>), Says(-1, <<UlMcs, TaKpi>>),
                 Says(-1, <<UlMcs, TxPower, TaKpi>>), Says(-1, <<Scell>>),
                 Says(0, <<StateIdle>>)}
      [] f = "traffic" ->
           {Says(r, <<StateConnected>>) : r \in {-1, 1}}
           \cup {[NoResult EXCEPT !.radio_id = r, !.dl_bytes = 125000] : r \in {-1, 1}}
           \cup {[NoResult EXCEPT !.radio_id = r, !.ul_bytes = 62500] : r \in {-1, 1}}
           \cup {[NoResult EXCEPT !.cp = <<"pdu">>, !.layer = y] : y \in {"", "rrc", "nas"}}
           \cup {[NoResult EXCEPT !.radio_id = 1, !.up = <<"sdu">>, !.layer = "ip"]}
           \cup {[NoResult EXCEPT !.cp = <<"pdu", "pdu2">>, !.up = <<"sdu">>,
                                   !.layer = y, !.ts = 1,
                                   !.stdout = <<StateConnected>>] : y \in {"rrc", "nas"}}
      [] f = "events" ->
           {EventResultOf(es, FALSE, TRUE) : es \in StateBatches}
           \cup {EventResultOf(<<StateChange(4)>>, TRUE, TRUE)}
      [] OTHER ->
           {Says(r, <<l>>) : r \in {-1, 1}, l \in {Compile, Blank}}
           \cup {Says(0, <<Compile, Compile>>)}
           \cup {[NoResult EXCEPT !.cp = <<"pdu">>, !.layer = y] : y \in {"", "rrc", "nas"}}
           \cup {[NoResult EXCEPT !.radio_id = 1, !.dl_bytes = 1]}

\* scat_main, lines 142-146: the active layers, from the layers named with
\* --layer and the options --kpi and --no-gsmtap
ActiveLayers(named, kpi, no_gsmtap) ==
    IF no_gsmtap THEN {}
    ELSE IF kpi THEN named \cup {"mac"}
    ELSE named

\* the options of a session: --kpi, --combine-stdout, --no-gsmtap and
\* --layer rrc,ip
Options(kpi, combine, no_gsmtap, f) ==
    [show_kpi |-> kpi, combine_stdout |-> combine, no_gsmtap |-> no_gsmtap,
     layers |-> ActiveLayers({"rrc", "ip"}, kpi, no_gsmtap), feed |-> f]

\* the option sets and feeds a session starts with: KPI lines need show_kpi
PostSetups ==
    {Options(TRUE, c, FALSE, f) : c \in BOOLEAN, f \in {"mcs", "kpi"}}
    \cup {Options(TRUE, FALSE, g, "traffic") : g \in BOOLEAN}
    \cup {Options(TRUE, c, FALSE, "events") : c \in BOOLEAN}
    \cup {Options(FALSE, c, g, "plain") : c \in BOOLEAN, g \in BOOLEAN}

\* the times of the last two emissions of a kind, after n more at time t
LastTwo(old, n, t) ==
    LET all == old \o [i \in 1..n |-> t]
    IN IF Len(all) <= 2 THEN all ELSE SubSeq(all, Len(all) - 1, Len(all))

CountOf(out, Test(_)) == Cardinality({i \in 1..Len(out) : Test(out[i].line)})

PostInit ==
    /\ now = Epoch
    /\ post_cfg \in PostSetups
    /\ per_radio = [r \in Radios |-> NewRadio]
    /\ calls = 0 /\ result = NoResult /\ emitted = <<>> /\ written = <<>>
    /\ comb_times = [r \in Radios |-> <<>>]
    /\ dl_times = [r \in Radios |-> <<>>]
    /\ scell_times = [r \in Radios |-> <<>>]

\* time passes between two results
Tick ==
    /\ now < Epoch + MaxTicks
    /\ now' = now + 1
    /\ UNCHANGED <<post_cfg, per_radio, calls, result, emitted, written,
                   comb_times, dl_times, scell_times>>
    /\ UNCHANGED <<parseVars, runVars, windowVars, negVars, loadVars, fmtVars, evVars, dlfVars>>

\* self.postprocess_parse_result(parse_result)
Postprocess ==
    /\ calls < MaxCalls
    /\ \E res \in PostInputs(post_cfg.feed) :
         LET rid == IF res.radio_id >= 0 THEN res.radio_id ELSE 0
             a0 == [rs |-> per_radio[rid], out |-> <<>>]
             a1 == Throughput(a0, rid, res, now, post_cfg, TicksPerSecond)
             a2 == IF Len(res.stdout) > 0
                   THEN StdoutLines(a1, rid, res.stdout, 1, now, post_cfg)
                   ELSE a1
         IN /\ per_radio[rid].throughput_dl_bytes + per_radio[rid].throughput_ul_bytes
                 < MaxBytes * 125000
            /\ result' = res
            /\ per_radio' = [per_radio EXCEPT ![rid] = a2.rs]
            /\ emitted' = a2.out
            /\ written' = Writes(res, rid, now, post_cfg)
                          \o LogWrites(a2.out, rid, Timestamp(res, now))
            /\ comb_times' = [comb_times EXCEPT
                                ![rid] = LastTwo(@, CountOf(a2.out, IsCombinedKpi), now)]
            /\ dl_times' = [dl_times EXCEPT
                              ![rid] = LastTwo(@, CountOf(a2.out, IsDlMcs), now)]
            /\ scell_times' = [scell_times EXCEPT
                                 ![rid] = LastTwo(@, CountOf(a2.out, IsServingCell), now)]
    /\ calls' = calls + 1
    /\ UNCHANGED <<now, post_cfg>>
    /\ UNCHANGED <<parseVars, runVars, windowVars, negVars, loadVars, fmtVars, evVars, dlfVars>>

(***************************************************************************)
(* WindowSpec: the post-processor of a connected radio in KPI mode, fed    *)
(* with results that carry dl_bytes = 125000 and ul_bytes = 0.  The clock  *)
(* counts tenths of a second; a result may arrive at any instant, at most  *)
(* one per instant.                                                        *)
(***************************************************************************)
\* 1.0 (line 871) in units of this clock
TenthsPerSecond == 10

\* bound: the tenths of a second the feed lasts
MaxTenths == 12

WindowEpoch == 3 * TenthsPerSecond

KpiCfg ==
    [show_kpi |-> TRUE, combine_stdout |-> FALSE, no_gsmtap |-> TRUE, layers |-> {},
     feed |-> "traffic"]

WindowOff ==
    /\ w_now = 0 /\ w_rs = NewRadio /\ w_fedat = {} /\ w_lines = <<>>

\* a fresh parser that has seen `LTE RRC State: RRC_CONNECTED` for radio 0
WindowInit ==
    /\ w_now = WindowEpoch
    /\ w_rs = ProcessLine([rs |-> NewRadio, out |-> <<>>], 0, StateConnected,
                          WindowEpoch, KpiCfg).rs
    /\ w_fedat = {}
    /\ w_lines = <<>>

\* a tenth of a second passes
WindowTick ==
    /\ w_now < WindowEpoch + MaxTenths
    /\ w_now' = w_now + 1
    /\ UNCHANGED <<w_rs, w_fedat, w_lines>>
    /\ UNCHANGED <<parseVars, runVars, postVars, negVars, loadVars, fmtVars, evVars, dlfVars>>

\* self.postprocess_parse_result({'dl_bytes': 125000, 'ul_bytes': 0})
WindowFeed ==
    /\ w_now \notin w_fedat
    /\ LET res == [NoResult EXCEPT !.dl_bytes = 125000, !.ul_bytes = 0]
           a == Throughput([rs |-> w_rs, out |-> <<>>], 0, res, w_now, KpiCfg,
                           TenthsPerSecond)
       IN /\ w_rs' = a.rs
          /\ w_lines' = w_lines \o ThroughputLines(a.out)
    /\ w_fedat' = w_fedat \cup {w_now}
    /\ UNCHANGED w_now
    /\ UNCHANGED <<parseVars, runVars, postVars, negVars, loadVars, fmtVars, evVars, dlfVars>>

(***************************************************************************)
(* NegSpec: the negotiation of a live session.  scat_main calls stop_diag, *)
(* init_diag and prepare_diag, then enters run_diag.  Each function body   *)
(* is a list of I/O calls on the device; one action makes one call.  Any   *)
(* call may raise SerialException or OSError.                              *)
(***************************************************************************)
\* init_diag, line 353: max_attempts
MaxAttempts == 3

\* init_diag, line 363: time.sleep(3)
SleepSeconds == 3

\* diagcmd: the sub-operation of LOG_CONFIG_F that retrieves the id ranges
LOG_CONFIG_RETRIEVE_ID_RANGES_OP == 1

\* diagcmd.DIAG_SUBSYS_ID_*
DIAG_SUBSYS_ID_1X == 1
DIAG_SUBSYS_ID_WCDMA == 4
DIAG_SUBSYS_ID_GSM == 5
DIAG_SUBSYS_ID_UMTS == 7
DIAG_SUBSYS_ID_DTV == 10
DIAG_SUBSYS_ID_LTE == 11
DIAG_SUBSYS_ID_TDSCDMA == 13

\* a request: what it asks for and the values packed into it
Req(name, arg) == [name |-> name, arg |-> arg]

NoReq == Req("none", <<>>)

\* the calls of a function body still to be made
WriteStep(req) == [io |-> "write", use |-> "request", req |-> req]
ReadStep(req, use) == [io |-> "read", use |-> use, req |-> req]

\* self.io_device.read(0x1000) before any request
Drain == <<ReadStep(NoReq, "drain")>>

\* io_device.write(...) followed by io_device.read(0x1000) and parse_diag
Query(req) == <<WriteStep(req), ReadStep(req, "parse")>>

\* a faulty variant of write_then_read_discard: the reply is not read
write_then_read_discard_NoRead(req) == <<WriteStep(req)>>

\* SerialIO.write_then_read_discard
write_then_read_discard(req) == <<WriteStep(req), ReadStep(req, "discard")>>

\* the steps of all the requests of reqs, one after the other
RECURSIVE Discards(_)
Discards(reqs) ==
    IF reqs = <<>> THEN <<>>
    ELSE write_then_read_discard(Head(reqs)) \o Discards(Tail(reqs))

RECURSIVE Queries(_)
Queries(reqs) ==
    IF reqs = <<>> THEN <<>> ELSE Query(Head(reqs)) \o Queries(Tail(reqs))

\* _init_diag_body, lines 397-424: the subsystems that get an empty mask
EmptyMaskSubsystems ==
    <<DIAG_SUBSYS_ID_1X, DIAG_SUBSYS_ID_WCDMA, DIAG_SUBSYS_ID_GSM, DIAG_SUBSYS_ID_UMTS,
      DIAG_SUBSYS_ID_DTV, DIAG_SUBSYS_ID_LTE, DIAG_SUBSYS_ID_TDSCDMA>>

\* prepare_diag, lines 484-503: the subsystems that get the mask of the layers
ScatMaskSubsystems ==
    <<DIAG_SUBSYS_ID_1X, DIAG_SUBSYS_ID_WCDMA, DIAG_SUBSYS_ID_GSM, DIAG_SUBSYS_ID_UMTS,
      DIAG_SUBSYS_ID_LTE>>

\* _init_diag_body, lines 437-459: the ranges used when the reply has none
DefaultEmrRanges ==
    << <<0, 101>>, <<500, 506>>, <<1000, 831>>, <<2000, 2008>>, <<3000, 3014>>,
       <<4000, 4010>>, <<4500, 4526>>, <<4600, 4614>>, <<5000, 5030>>,
       <<5500, 5516>>, <<6000, 6080>>, <<6500, 6521>>, <<7000, 7003>>,
       <<7100, 7111>>, <<7200, 7201>>, <<8000, 8000>>, <<8500, 8524>>,
       <<9000, 9008>>, <<9500, 9509>>, <<10200, 10210>>, <<10251, 10255>>,
       <<10300, 10300>>, <<10350, 10374>> >>

\* stop_diag, lines 600-605
StopBody ==
    Drain
    \o write_then_read_discard(Req("EVENT_REPORT", <<0>>))
    \o write_then_read_discard(Req("LOG_CONFIG_DISABLE", <<>>))
    \o write_then_read_discard(Req("EXT_MSG_CONFIG_CLEAR", <<0, 0, 0>>))

\* _init_diag_body, lines 375-429: up to the read of the range reply; the mask
\* requests that follow depend on that reply
InitBody ==
    Drain
    \o Query(Req("VERNO", <<>>))
    \o Query(Req("EXT_BUILD_ID", <<>>))
    \o write_then_read_discard(Req("EVENT_REPORT", <<0>>))
    \o Query(Req("LOG_CONFIG_RETRIEVE_ID_RANGES", <<>>))
    \o Discards([i \in 1..Len(EmptyMaskSubsystems) |->
                    Req("LOG_MASK_EMPTY", <<EmptyMaskSubsystems[i]>>)])
    \o Query(Req("EXT_MSG_CONFIG_RANGES", <<>>))

\* _init_diag_body, lines 433-459: one set-mask request per range
EmrMaskSteps(ranges) ==
    Discards([i \in 1..Len(ranges) |-> Req("EXT_MSG_CONFIG_SET_MASK", ranges[i])])

\* prepare_diag, lines 476-477: one set-mask request per level list read
LevelMaskSteps(levels) ==
    Discards([i \in 1..Len(levels) |-> Req("EXT_MSG_CONFIG_SET_MASK", levels[i])])

\* the place in prepare_diag where the level lists read so far are applied
ApplyLevels == [io |-> "plan", use |-> "levels", req |-> NoReq]

\* prepare_diag, lines 466-503
PrepareBody(msgs, ranges) ==
    (IF msgs /\ Len(ranges) > 0
     THEN Queries([i \in 1..Len(ranges) |-> Req("EXT_MSG_CONFIG_LEVELS", ranges[i])])
          \o <<ApplyLevels>>
     ELSE <<>>)
    \o write_then_read_discard(Req("EVENT_REPORT", <<1>>))
    \o Discards([i \in 1..Len(ScatMaskSubsystems) |->
                    Req("LOG_MASK_SCAT", <<ScatMaskSubsystems[i]>>)])

\* prepare_diag, lines 475-477: when the level queries are done the set-mask
\* requests of the lists read are next
Planned(todo, levels) ==
    IF todo # <<>> /\ Head(todo).io = "plan"
    THEN LevelMaskSteps(levels) \o Tail(todo)
    ELSE todo

\* the request as it is packed: a log mask is sized by the subsystem's entry
\* of log_id_range, or by the built-in default (0 here) without one
Packed(req, log_id_range) ==
    IF req.name \in {"LOG_MASK_EMPTY", "LOG_MASK_SCAT"}
    THEN [req EXCEPT !.arg = <<req.arg[1],
                               IF req.arg[1] \in DOMAIN log_id_range
                               THEN log_id_range[req.arg[1]] ELSE 0>>]
    ELSE req

\* one I/O call made: ok is FALSE when it raised
IoCall(step, log_id_range, ok) ==
    [io |-> step.io, use |-> step.use, req |-> Packed(step.req, log_id_range),
     ok |-> ok]

NoCall == [io |-> "none", use |-> "none", req |-> NoReq, ok |-> TRUE]

\* buf[:-1]
DropLast1(s) == SubSeq(s, 1, Len(s) - 1)

\* the packet the sub-decoders see for the bytes buf of a read
ReplyBody(buf) == DropLast2(unwrap(DropLast1(buf)).bytes)

\* parse_diag_ext_msg_config, lines 1273-1284: the 'id_range' of the result
HasIdRange(res) ==
    res.kind = "dict" /\ res.stdout # <<>>
    /\ res.stdout[1].k = "Extended message range: "

IdRangeOf(body) ==
    [i \in 1..U16(body, 5) |-> <<U16(body, 5 + 4 * i), U16(body, 7 + 4 * i)>>]

\* parse_diag_ext_msg_config, line 1303: 'start', 'end' and 'level'
HasLevels(res) ==
    res.kind = "dict" /\ res.stdout # <<>>
    /\ res.stdout[1].k = "Extended message level: "

\* (result['start'], result['end'], result['level']); a level is 4 bytes
LevelsOf(body) ==
    <<U16(body, 3), U16(body, 5),
      [i \in 1..(U16(body, 5) - U16(body, 3) + 1) |-> U32(body, 5 + 4 * i)]>>

\* parse_diag_log_config, lines 1195-1203: the entries the reply adds to
\* self.log_id_range
LogIdRangeAfter(old, res, body) ==
    IF res.kind = "dict" /\ res.dec = <<"parse_diag_log_config">>
       /\ U32(body, 5) = LOG_CONFIG_RETRIEVE_ID_RANGES_OP /\ Len(body) >= 12
    THEN LET num == (Len(body) - 12) \div 4
             val(i) == U32(body, 13 + 4 * i)
             new == {i \in 0..(num - 1) : val(i) > 0}
         IN [i \in (DOMAIN old) \cup new |-> IF i \in new THEN val(i) ELSE old[i]]
    ELSE old

\* what the device may answer to a request whose reply is parsed
U32Bytes(n) == <<n % 256, (n \div 256) % 256, 0, 0>>

RangesReply(ranges) ==
    <<DIAG_EXT_MSG_CONFIG_F, 1, 0, 0, Len(ranges), 0, 0, 0>>
    \o (IF Len(ranges) = 0 THEN <<>>
        ELSE <<ranges[1][1], 0, ranges[1][2], 0>>)

LevelsReply == <<DIAG_EXT_MSG_CONFIG_F, 2, 1, 0, 2, 0, 0, 0, 3, 0, 0, 0, 4, 0, 0, 0>>

LogIdRangesReply ==
    <<DIAG_LOG_CONFIG_F, 0, 0, 0, LOG_CONFIG_RETRIEVE_ID_RANGES_OP, 0, 0, 0,
      0, 0, 0, 0>>
    \o U32Bytes(0) \o U32Bytes(0) \o U32Bytes(0) \o U32Bytes(0) \o U32Bytes(5)
    \o U32Bytes(0) \o U32Bytes(0) \o U32Bytes(0) \o U32Bytes(0) \o U32Bytes(0)
    \o U32Bytes(0) \o U32Bytes(511)

\* the bytes of a read: a framed packet with its 0x7E
Framed(payload) == Wire(payload, "good") \o <<HDLC_FLAG>>

\* nothing (the read timed out), a version response, range lists with no and
\* with one range, a level list, the log-id ranges, and an escaped CRC with
\* no packet in front of it
NegReplies ==
    {<<>>, Framed(VersionPayload(65, VersionMinLen - 1)),
     Framed(RangesReply(<<>>)), Framed(RangesReply(<< <<1, 2>> >>)),
     Framed(LevelsReply), Framed(LogIdRangesReply),
     <<HDLC_ESC, 1, 2, HDLC_FLAG>>}

Exceptions == {"SerialException", "OSError"}

NegOff ==
    /\ n_pc = "off" /\ n_msgs = FALSE /\ n_todo = <<>> /\ n_attempt = 0
    /\ n_slept = 0 /\ n_ops = <<>> /\ n_last = NoCall /\ n_log_id_range = <<>>
    /\ n_emr_id_range = <<>> /\ n_levels = <<>> /\ n_printed = <<>>
    /\ n_warned = 0 /\ n_failed = 0

\* scat_main at line 248: the parser is constructed, stop_diag is called
NegInit ==
    /\ n_pc = "stop_diag" /\ n_msgs \in BOOLEAN /\ n_todo = StopBody
    /\ n_attempt = 0 /\ n_slept = 0 /\ n_ops = <<>> /\ n_last = NoCall
    /\ n_log_id_range = <<>> /\ n_emr_id_range = <<>> /\ n_levels = <<>>
    /\ n_printed = <<>> /\ n_warned = 0 /\ n_failed = 0

InBody == n_pc \in {"stop_diag", "init_diag", "prepare_diag"} /\ n_todo # <<>>

\* io_device.write(...) returns
NegWrite ==
    /\ InBody /\ Head(n_todo).io = "write"
    /\ n_ops' = Append(n_ops, IoCall(Head(n_todo), n_log_id_range, TRUE))
    /\ n_last' = IoCall(Head(n_todo), n_log_id_range, TRUE)
    /\ n_todo' = Tail(n_todo)
    /\ UNCHANGED <<n_pc, n_msgs, n_attempt, n_slept, n_log_id_range, n_emr_id_range,
                   n_levels, n_printed, n_warned, n_failed>>
    /\ UNCHANGED <<parseVars, runVars, postVars, windowVars, loadVars, fmtVars, evVars, dlfVars>>

\* io_device.read(0x1000) returns and the bytes are dropped
NegReadDiscard ==
    /\ InBody /\ Head(n_todo).io = "read" /\ Head(n_todo).use \in {"drain", "discard"}
    /\ n_ops' = Append(n_ops, IoCall(Head(n_todo), n_log_id_range, TRUE))
    /\ n_last' = IoCall(Head(n_todo), n_log_id_range, TRUE)
    /\ n_todo' = Tail(n_todo)
    /\ UNCHANGED <<n_pc, n_msgs, n_attempt, n_slept, n_log_id_range, n_emr_id_range,
                   n_levels, n_printed, n_warned, n_failed>>
    /\ UNCHANGED <<parseVars, runVars, postVars, windowVars, loadVars, fmtVars, evVars, dlfVars>>

\* the lines postprocess_parse_result prints for a result during negotiation
NegPrinted(res) ==
    IF res.kind = "dict" /\ Len(res.stdout) > 0
    THEN LET a == StdoutLines([rs |-> NewRadio, out |-> <<>>], 0, res.stdout, 1, Epoch,
                              Options(FALSE, FALSE, FALSE, "plain"))
         IN [i \in 1..Len(a.out) |-> a.out[i].line]
    ELSE <<>>

\* io_device.read(0x1000) returns buf; parse_diag(buf[:-1]); the result, if
\* any, is post-processed and used
NegReadReply ==
    /\ InBody /\ Head(n_todo).io = "read" /\ Head(n_todo).use = "parse"
    /\ \E buf \in NegReplies :
         LET res == parse_diag(DropLast1(buf), TRUE, TRUE,
                               [DefaultCfg EXCEPT !.parse_msgs = n_msgs])
             body == ReplyBody(buf)
             step == Head(n_todo)
             call == IoCall(step, n_log_id_range, TRUE)
             ranges == step.req.name = "EXT_MSG_CONFIG_RANGES"
             levels == step.req.name = "EXT_MSG_CONFIG_LEVELS"
         IN /\ n_ops' = Append(n_ops, call)
            /\ n_last' = call
            /\ IF res.kind = "raise" \/ (levels /\ res.kind = "dict" /\ ~HasLevels(res))
               THEN \* an exception of the decoder, or KeyError at line 474
                    /\ n_pc' = "crashed" /\ n_todo' = <<>>
                    /\ n_printed' = (IF res.kind = "raise" THEN <<>> ELSE NegPrinted(res))
                    /\ n_log_id_range' = LogIdRangeAfter(n_log_id_range, res, body)
                    /\ UNCHANGED <<n_emr_id_range, n_levels>>
               ELSE /\ n_pc' = n_pc
                    /\ n_printed' = NegPrinted(res)
                    /\ n_log_id_range' = LogIdRangeAfter(n_log_id_range, res, body)
                    /\ n_emr_id_range' = (IF ranges /\ HasIdRange(res)
                                          THEN IdRangeOf(body) ELSE n_emr_id_range)
                    /\ n_levels' = (IF levels /\ HasLevels(res)
                                    THEN Append(n_levels, LevelsOf(body)) ELSE n_levels)
                    /\ n_todo' = (IF ranges
                                  THEN IF HasIdRange(res)
                                       THEN EmrMaskSteps(IdRangeOf(body))
                                       ELSE EmrMaskSteps(DefaultEmrRanges)
                                  ELSE Planned(Tail(n_todo), n_levels'))
    /\ UNCHANGED <<n_msgs, n_attempt, n_slept, n_warned, n_failed>>
    /\ UNCHANGED <<parseVars, runVars, postVars, windowVars, loadVars, fmtVars, evVars, dlfVars>>

\* a read or a write raises: stop_diag logs a SerialException and returns
\* (line 606), init_diag catches both exceptions and retries or exits (lines
\* 358-371), elsewhere the exception leaves scat_main
NegTransportError ==
    /\ InBody
    /\ \E e \in Exceptions :
         /\ n_ops' = Append(n_ops, IoCall(Head(n_todo), n_log_id_range, FALSE))
         /\ n_last' = IoCall(Head(n_todo), n_log_id_range, FALSE)
         /\ n_todo' = <<>>
         /\ n_pc' = (CASE n_pc = "stop_diag" ->
                            IF e = "SerialException" THEN "stop_diag" ELSE "crashed"
                       [] n_pc = "init_diag" ->
                            IF n_attempt < MaxAttempts THEN "sleep" ELSE "exit1"
                       [] OTHER -> "crashed")
         /\ n_warned' = (IF (n_pc = "stop_diag" /\ e = "SerialException")
                            \/ (n_pc = "init_diag" /\ n_attempt < MaxAttempts)
                         THEN n_warned + 1 ELSE n_warned)
         /\ n_failed' = (IF n_pc = "init_diag" THEN n_failed + 1 ELSE n_failed)
    /\ UNCHANGED <<n_msgs, n_attempt, n_slept, n_log_id_range, n_emr_id_range,
                   n_levels, n_printed>>
    /\ UNCHANGED <<parseVars, runVars, postVars, windowVars, loadVars, fmtVars, evVars, dlfVars>>

\* init_diag, line 363 and the next round of the for loop
NegSleep ==
    /\ n_pc = "sleep"
    /\ n_pc' = "init_diag" /\ n_slept' = n_slept + SleepSeconds
    /\ n_attempt' = n_attempt + 1
    /\ n_todo' = InitBody /\ n_ops' = <<>>
    /\ UNCHANGED <<n_msgs, n_last, n_log_id_range, n_emr_id_range, n_levels,
                   n_printed, n_warned, n_failed>>
    /\ UNCHANGED <<parseVars, runVars, postVars, windowVars, loadVars, fmtVars, evVars, dlfVars>>

\* scat_main, lines 248-259: the function returns and the next one is called
NegNextCall ==
    /\ n_pc \in {"stop_diag", "init_diag", "prepare_diag"} /\ n_todo = <<>>
    /\ n_pc' = (CASE n_pc = "stop_diag" -> "init_diag"
                  [] n_pc = "init_diag" -> "prepare_diag"
                  [] OTHER -> "run_diag")
    /\ n_attempt' = (IF n_pc = "stop_diag" THEN 1 ELSE n_attempt)
    /\ n_todo' = (CASE n_pc = "stop_diag" -> InitBody
                    [] n_pc = "init_diag" ->
                         Planned(PrepareBody(n_msgs, n_emr_id_range), <<>>)
                    [] OTHER -> <<>>)
    /\ n_ops' = <<>>
    /\ UNCHANGED <<n_msgs, n_slept, n_last, n_log_id_range, n_emr_id_range, n_levels,
                   n_printed, n_warned, n_failed>>
    /\ UNCHANGED <<parseVars, runVars, postVars, windowVars, loadVars, fmtVars, evVars, dlfVars>>

(***************************************************************************)
(* set_parameter and the hash-file loaders                                 *)
(***************************************************************************)
\* a line of a hash file: its kind and, for a row, its hash
L(t, h) == [t |-> t, h |-> h]

\* the lines of a legacy file: two rows `hash:file:string`, a row whose
\* hash is not a number, a row with a `:` in its string (three fields after
\* the hash), and a metadata tag
QsrLineKinds ==
    {L("row", 1), L("row", 2), L("bad_hash", 0), L("bad_fields", 0), L("meta", 0)}

\* the lines of the text of a QDB4 file: section tags, a `Content` row
\* (hash and five fields, three of them numbers), an `MtraceContent` row
\* (hash and six fields), and a `Content` row whose hash is not a number
Qsr4LineKinds ==
    {L("open_Content", 0), L("open_MtraceContent", 0),
     L("open_QtraceStrContent", 0), L("open_Other", 0),
     L("close_Content", 0), L("close_MtraceContent", 0),
     L("close_QtraceStrContent", 0), L("close_Other", 0),
     L("content_row", 1), L("mtrace_row", 2), L("bad_hash", 0)}

\* the longest files offered
MaxQsrLines == 2
MaxQsr4Lines == 3

QsrFiles == UNION {[1..n -> QsrLineKinds] : n \in 0..MaxQsrLines}
Qsr4Files == UNION {[1..n -> Qsr4LineKinds] : n \in 0..MaxQsr4Lines}

\* one file of each outcome: not given, loaded, no content row, ValueError
SomeQsrArgs ==
    {NoFile, File(<<L("row", 1)>>), File(<<L("meta", 0)>>),
     File(<<L("row", 1), L("bad_hash", 0)>>)}

SomeQsr4Args ==
    {NoFile, File(<<L("open_Content", 0), L("content_row", 1)>>),
     [File(<<>>) EXCEPT !.magic = FALSE], [File(<<>>) EXCEPT !.zlib = FALSE],
     File(<<L("open_Content", 0), L("content_row", 1), L("open_Other", 0)>>)}

\* the parameters of main.py's dictionary that set_parameter acts on here,
\* in the order of the dictionary
HashParams == <<"qsr-hash", "qsr4-hash", "msgs">>

LoadInit ==
    /\ h_pc = "params"
    /\ \E m \in BOOLEAN :
          \/ \E f \in QsrFiles, g \in SomeQsr4Args :
                h_args = [qsr |-> File(f), qsr4 |-> g, msgs |-> m]
          \/ \E f \in SomeQsrArgs, g \in Qsr4Files :
                h_args = [qsr |-> f, qsr4 |-> File(g), msgs |-> m]
    /\ h_todo = HashParams
    /\ h_lines = <<>> /\ h_mode = 0 /\ h_loaded = FALSE
    /\ h_parse_msgs = FALSE /\ h_qsr_content = {} /\ h_qsr4_content = {}
    /\ h_qsr4_mtrace_content = {} /\ h_qsr4_qtrace_str_content = {}
    /\ h_report = NoReport

HashArg(p) == IF p = "qsr-hash" THEN h_args.qsr ELSE h_args.qsr4

\* `if not self.qsr_hash_filename: continue` (and the same for qsr4)
SkipHash ==
    /\ h_pc = "params" /\ h_todo # <<>>
    /\ Head(h_todo) \in {"qsr-hash", "qsr4-hash"}
    /\ ~HashArg(Head(h_todo)).given
    /\ h_todo' = Tail(h_todo)
    /\ UNCHANGED <<h_pc, h_args, h_lines, h_mode, h_loaded, h_parse_msgs,
                   h_qsr_content, h_qsr4_content, h_qsr4_mtrace_content,
                   h_qsr4_qtrace_str_content, h_report>>
    /\ UNCHANGED <<parseVars, runVars, postVars, windowVars, negVars, fmtVars, evVars, dlfVars>>

\* load_qsr_hash up to its loop
OpenQsr ==
    /\ h_pc = "params" /\ h_todo # <<>>
    /\ Head(h_todo) = "qsr-hash" /\ h_args.qsr.given
    /\ h_pc' = "qsr"
    /\ h_lines' = h_args.qsr.lines
    /\ UNCHANGED <<h_args, h_todo, h_mode, h_loaded, h_parse_msgs,
                   h_qsr_content, h_qsr4_content, h_qsr4_mtrace_content,
                   h_qsr4_qtrace_str_content, h_report>>
    /\ UNCHANGED <<parseVars, runVars, postVars, windowVars, negVars, fmtVars, evVars, dlfVars>>

\* what a line does to load_qsr_hash: "ok", "ValueError" (int() of the
\* hash, after the row was made) or "TypeError" (content_t._make of a list
\* that has not two fields)
QsrLineOutcome(l) ==
    CASE l.t = "bad_hash" -> "ValueError"
      [] l.t = "bad_fields" -> "TypeError"
      [] OTHER -> "ok"

\* one iteration of the loop of load_qsr_hash, or its return at the end of
\* the file; set_parameter catches ValueError and goes on with the next
\* parameter, qsr_hash_loaded not assigned
QsrLine ==
    /\ h_pc = "qsr"
    /\ IF h_lines = <<>>
       THEN /\ h_loaded' = (h_qsr_content # {})
            /\ h_report' = [h_report EXCEPT !.qsr = IF h_qsr_content # {} THEN "true"
                                                    ELSE "false"]
            /\ h_pc' = "params" /\ h_todo' = Tail(h_todo)
            /\ UNCHANGED <<h_lines, h_qsr_content>>
       ELSE LET l == Head(h_lines)
            IN CASE QsrLineOutcome(l) = "ValueError" ->
                      /\ h_report' = [h_report EXCEPT !.qsr = "error"]
                      /\ h_pc' = "params" /\ h_todo' = Tail(h_todo)
                      /\ h_lines' = <<>>
                      /\ UNCHANGED <<h_loaded, h_qsr_content>>
                 [] QsrLineOutcome(l) = "TypeError" ->
                      /\ h_pc' = "crashed"
                      /\ h_lines' = <<>>
                      /\ UNCHANGED <<h_loaded, h_qsr_content, h_report, h_todo>>
                 [] OTHER ->
                      /\ h_qsr_content' = (IF l.t = "row" THEN h_qsr_content \cup {l.h}
                                           ELSE h_qsr_content)
                      /\ h_lines' = Tail(h_lines)
                      /\ UNCHANGED <<h_pc, h_loaded, h_report, h_todo>>
    /\ UNCHANGED <<h_args, h_mode, h_parse_msgs, h_qsr4_content,
                   h_qsr4_mtrace_content, h_qsr4_qtrace_str_content>>
    /\ UNCHANGED <<parseVars, runVars, postVars, windowVars, negVars, fmtVars, evVars, dlfVars>>

\* load_qsr4_hash up to its loop: the magic and the decompression
OpenQsr4 ==
    /\ h_pc = "params" /\ h_todo # <<>>
    /\ Head(h_todo) = "qsr4-hash" /\ h_args.qsr4.given
    /\ IF ~h_args.qsr4.magic \/ ~h_args.qsr4.zlib
       THEN /\ h_loaded' = FALSE
            /\ h_report' = [h_report EXCEPT !.qsr4 = IF ~h_args.qsr4.magic THEN "magic"
                                                     ELSE "zlib"]
            /\ h_todo' = Tail(h_todo)
            /\ UNCHANGED <<h_pc, h_lines, h_mode>>
       ELSE /\ h_pc' = "qsr4"
            /\ h_lines' = h_args.qsr4.lines
            /\ h_mode' = 0
            /\ UNCHANGED <<h_loaded, h_report, h_todo>>
    /\ UNCHANGED <<h_args, h_parse_msgs, h_qsr_content, h_qsr4_content,
                   h_qsr4_mtrace_content, h_qsr4_qtrace_str_content>>
    /\ UNCHANGED <<parseVars, runVars, postVars, windowVars, negVars, fmtVars, evVars, dlfVars>>

\* the mode a section tag selects
ModeOf(tag) ==
    CASE tag = "Content" -> 1
      [] tag = "MtraceContent" -> 2
      [] tag = "QtraceStrContent" -> 3
      [] OTHER -> 0

TagOf(l) ==
    CASE l.t \in {"open_Content", "close_Content"} -> "Content"
      [] l.t \in {"open_MtraceContent", "close_MtraceContent"} -> "MtraceContent"
      [] l.t \in {"open_QtraceStrContent", "close_QtraceStrContent"} -> "QtraceStrContent"
      [] OTHER -> "Other"

IsOpen(l) == l.t \in {"open_Content", "open_MtraceContent", "open_QtraceStrContent",
                       "open_Other"}
IsClose(l) == l.t \in {"close_Content", "close_MtraceContent",
                        "close_QtraceStrContent", "close_Other"}

\* what a line does to load_qsr4_hash in a mode: the exception it raises
\* ("ok" for none), the mode afterwards, the map it adds its hash to
Qsr4Step(mode, l) ==
    LET r(e, m, map) == [exc |-> e, mode |-> m, map |-> map]
    IN IF IsOpen(l)
       THEN IF ModeOf(TagOf(l)) = 0 THEN r("ValueError", mode, "none")
            ELSE r("ok", ModeOf(TagOf(l)), "none")
       ELSE IF IsClose(l)
       THEN \* only the three known names are compared with the mode
            IF ModeOf(TagOf(l)) # 0 /\ ModeOf(TagOf(l)) # mode
            THEN r("ValueError", mode, "none")
            ELSE r("ok", 0, "none")
       ELSE CASE mode = 0 -> r("ok", mode, "none")
              [] mode = 1 ->
                    \* int() of fields 1 to 3, the row, then int() of the hash
                    CASE l.t = "content_row" -> r("ok", mode, "content")
                      [] OTHER -> r("ValueError", mode, "none")
              [] mode = 2 ->
                    \* mtrace_t._make wants six fields after the hash
                    CASE l.t = "mtrace_row" -> r("ok", mode, "mtrace")
                      [] OTHER -> r("TypeError", mode, "none")
              [] OTHER ->
                    \* split(':', 1), then int() of the hash
                    CASE l.t = "bad_hash" -> r("ValueError", mode, "none")
                      [] OTHER -> r("ok", mode, "qtrace")

\* one iteration of the loop of load_qsr4_hash, or its return at the end
Qsr4Line ==
    /\ h_pc = "qsr4"
    /\ IF h_lines = <<>>
       THEN /\ h_loaded' = (h_qsr4_content # {})
            /\ h_report' = [h_report EXCEPT !.qsr4 = IF h_qsr4_content # {} THEN "true"
                                                     ELSE "false"]
            /\ h_pc' = "params" /\ h_todo' = Tail(h_todo)
            /\ UNCHANGED <<h_lines, h_mode, h_qsr4_content, h_qsr4_mtrace_content,
                           h_qsr4_qtrace_str_content>>
       ELSE LET l == Head(h_lines)
                st == Qsr4Step(h_mode, l)
            IN CASE st.exc = "ValueError" ->
                      /\ h_report' = [h_report EXCEPT !.qsr4 = "error"]
                      /\ h_pc' = "params" /\ h_todo' = Tail(h_todo)
                      /\ h_lines' = <<>>
                      /\ UNCHANGED <<h_loaded, h_mode, h_qsr4_content,
                                     h_qsr4_mtrace_content, h_qsr4_qtrace_str_content>>
                 [] st.exc = "TypeError" ->
                      /\ h_pc' = "crashed"
                      /\ h_lines' = <<>>
                      /\ UNCHANGED <<h_loaded, h_mode, h_report, h_todo, h_qsr4_content,
                                     h_qsr4_mtrace_content, h_qsr4_qtrace_str_content>>
                 [] OTHER ->
                      /\ h_mode' = st.mode
                      /\ h_qsr4_content' =
                            (IF st.map = "content" THEN h_qsr4_content \cup {l.h}
                             ELSE h_qsr4_content)
                      /\ h_qsr4_mtrace_content' =
                            (IF st.map = "mtrace" THEN h_qsr4_mtrace_content \cup {l.h}
                             ELSE h_qsr4_mtrace_content)
                      /\ h_qsr4_qtrace_str_content' =
                            (IF st.map = "qtrace" THEN h_qsr4_qtrace_str_content \cup {l.h}
                             ELSE h_qsr4_qtrace_str_content)
                      /\ h_lines' = Tail(h_lines)
                      /\ UNCHANGED <<h_pc, h_loaded, h_report, h_todo>>
    /\ UNCHANGED <<h_args, h_parse_msgs, h_qsr_content>>
    /\ UNCHANGED <<parseVars, runVars, postVars, windowVars, negVars, fmtVars, evVars, dlfVars>>

\* elif p == 'msgs': self.parse_msgs = params[p]
SetMsgs ==
    /\ h_pc = "params" /\ h_todo # <<>> /\ Head(h_todo) = "msgs"
    /\ h_parse_msgs' = h_args.msgs
    /\ h_todo' = Tail(h_todo)
    /\ UNCHANGED <<h_pc, h_args, h_lines, h_mode, h_loaded, h_qsr_content,
                   h_qsr4_content, h_qsr4_mtrace_content, h_qsr4_qtrace_str_content,
                   h_report>>
    /\ UNCHANGED <<parseVars, runVars, postVars, windowVars, negVars, fmtVars, evVars, dlfVars>>

\* a faulty variant: the loaded flag is not looked at
MsgsAfterLoad_Ignored(loaded, msgs) == msgs

\* `if qsr_hash_loaded: self.parse_msgs = True`
MsgsAfterLoad(loaded, msgs) == IF loaded THEN TRUE ELSE msgs

\* the end of set_parameter
ReturnFromSetParameter ==
    /\ h_pc = "params" /\ h_todo = <<>>
    /\ h_parse_msgs' = MsgsAfterLoad(h_loaded, h_parse_msgs)
    /\ h_pc' = "done"
    /\ UNCHANGED <<h_args, h_todo, h_lines, h_mode, h_loaded, h_qsr_content,
                   h_qsr4_content, h_qsr4_mtrace_content, h_qsr4_qtrace_str_content,
                   h_report>>
    /\ UNCHANGED <<parseVars, runVars, postVars, windowVars, negVars, fmtVars, evVars, dlfVars>>

(***************************************************************************)
(* QualcommParser._snprintf                                                *)
(***************************************************************************)
\* a 32-bit argument, as its two 16-bit halves (value = 65536 * hi + lo)
Arg(hi, lo) == [hi |-> hi, lo |-> lo]

HexDigits == <<"0", "1", "2", "3", "4", "5", "6", "7", "8", "9",
               "a", "b", "c", "d", "e", "f">>
UpperHexDigits == <<"0", "1", "2", "3", "4", "5", "6", "7", "8", "9",
                    "A", "B", "C", "D", "E", "F">>

\* n in hexadecimal, n a natural number below 2^31
RECURSIVE HexOf(_, _)
HexOf(n, digits) ==
    IF n < 16 THEN digits[n + 1]
    ELSE HexOf(n \div 16, digits) \o digits[(n % 16) + 1]

\* k copies of the character c
RECURSIVE Repeat(_, _)
Repeat(c, k) == IF k <= 0 THEN "" ELSE c \o Repeat(c, k - 1)

ZeroPad(str, w) == Repeat("0", w - Len(str)) \o str

\* the digits of a 32-bit argument: '{:x}' / '{:X}' and '{}'
Hex32(a, digits) ==
    IF a.hi = 0 THEN HexOf(a.lo, digits)
    ELSE HexOf(a.hi, digits) \o ZeroPad(HexOf(a.lo, digits), 4)

Dec32(a) ==
    LET t == (a.hi % 10000) * 65536 + a.lo
        q == (a.hi \div 10000) * 65536 + t \div 10000
    IN IF q = 0 THEN ToString(t % 10000)
       ELSE ToString(q) \o ZeroPad(ToString(t % 10000), 4)

\* fmtargs[i] > 2147483648
AboveTwoTo31(a) == a.hi > 32768 \/ (a.hi = 32768 /\ a.lo > 0)

\* 4294967296 - fmtargs[i], for an argument above 2^31
Complement32(a) == (65535 - a.hi) * 65536 + (65536 - a.lo)

IsDigit(c) == c \in {"0", "1", "2", "3", "4", "5", "6", "7", "8", "9"}
DigitVal(c) == CHOOSE d \in 0..9 : ToString(d) = c

\* the index after the run of digits of s that starts at i
RECURSIVE DigitsEnd(_, _)
DigitsEnd(s, i) ==
    IF i <= Len(s) /\ IsDigit(s[i]) THEN DigitsEnd(s, i + 1) ELSE i

\* the number written by the digits s[i..j]
RECURSIVE NumVal(_, _, _)
NumVal(s, i, j) ==
    IF j < i THEN 0 ELSE 10 * NumVal(s, i, j - 1) + DigitVal(s[j])

\* python's reading of a format specification whose characters before the
\* type are s: [sign][#][0][width][.precision]; anything left over makes
\* the specification invalid.  (No character the conversion syntax lets
\* through is a fill or an alignment, a `z` or a grouping option.)
PyFormatSpec(s) ==
    LET n == Len(s)
        i1 == IF n >= 1 /\ s[1] \in {"+", "-", " "} THEN 2 ELSE 1
        i2 == IF i1 <= n /\ s[i1] = "#" THEN i1 + 1 ELSE i1
        i3 == IF i2 <= n /\ s[i2] = "0" THEN i2 + 1 ELSE i2
        i4 == DigitsEnd(s, i3)
        hasprec == i4 <= n /\ s[i4] = "."
        i5 == IF hasprec THEN DigitsEnd(s, i4 + 1) ELSE i4
    IN [ok |-> (hasprec => i5 > i4 + 1) /\ i5 = n + 1,
        sign |-> IF i1 = 2 THEN s[1] ELSE "-",
        alt |-> i2 > i1,
        zero |-> i3 > i2,
        width |-> NumVal(s, i3, i4 - 1),
        prec |-> hasprec]

Str(text) == [kind |-> "str", text |-> text]
Raised == [kind |-> "raise", text |-> ""]

\* pyfmt_str.format(n) for an integer: neg and digits give n, prefix is
\* what the alternate form puts before the digits.  ValueError for an
\* invalid specification and for a precision.
PyFormatInt(s, neg, digits, prefix) ==
    LET f == PyFormatSpec(s)
        signstr == IF neg THEN "-"
                   ELSE IF f.sign = "-" THEN "" ELSE f.sign
        pre == signstr \o (IF f.alt THEN prefix ELSE "")
        fill == f.width - Len(pre) - Len(digits)
    IN IF ~f.ok \/ f.prec THEN Raised
       ELSE IF f.zero THEN Str(pre \o Repeat("0", fill) \o digits)
       ELSE Str(Repeat(" ", fill) \o pre \o digits)

\* the pieces of a template: text without a conversion, `%%`, and a
\* conversion with the characters of its flags, width and precision (what
\* cfmt_nums captures), its length modifier and its type
Lit(text) == [k |-> "lit", s |-> text, num |-> <<>>, t |-> ""]
Pct == [k |-> "pct", s |-> "%%", num |-> <<>>, t |-> ""]

RECURSIVE Concat(_)
Concat(strs) == IF strs = <<>> THEN "" ELSE Head(strs) \o Concat(Tail(strs))

Conv(num, lenmod, t) ==
    [k |-> "conv", s |-> "%" \o Concat(num) \o lenmod \o t, num |-> num, t |-> t]

\* fmtstr
Src(fmt) == Concat([i \in 1..Len(fmt) |-> fmt[i].s])

\* cfmt.findall(fmtstr)
fmt_strs(fmt) == SelectSeq(fmt, LAMBDA p : p.k # "lit")

\* the body of the for loop for one conversion and the argument fmtargs[i]
FormatOne(p, a) ==
    CASE p.k = "pct" -> Str("%")
      [] p.t \in {"x", "p"} -> PyFormatInt(p.num, FALSE, Hex32(a, HexDigits), "0x")
      [] p.t = "X" -> PyFormatInt(p.num, FALSE, Hex32(a, UpperHexDigits), "0X")
      [] p.t = "d" ->
            IF AboveTwoTo31(a)
            THEN PyFormatInt(p.num, TRUE, ToString(Complement32(a)), "")
            ELSE PyFormatInt(p.num, FALSE, Dec32(a), "")
      [] OTHER -> PyFormatInt(p.num, FALSE, Dec32(a), "")

\* what str.format makes of a piece of text of log_content_pyfmt
BraceEffect(text) ==
    CASE text \in {"{", "}"} -> "error"
      [] text = "{}" -> "field"
      [] text = "{{" -> "{"
      [] text = "}}" -> "}"
      [] OTHER -> text

\* ', '.join(['0x{:x}'.format(x) for x in fmtargs])
RECURSIVE JoinHex(_)
JoinHex(args) ==
    IF Len(args) = 1 THEN "0x" \o Hex32(args[1], HexDigits)
    ELSE "0x" \o Hex32(args[1], HexDigits) \o ", " \o JoinHex(Tail(args))

\* the except branch
Fallback(fmt, args) ==
    IF Len(args) > 0 THEN Src(fmt) \o ", args=" \o JoinHex(args) ELSE Src(fmt)

\* a faulty variant: an argument for every piece, text included
ArgIndex_PerPiece(fmt, j) == j

\* the value of i when the loop reaches piece j of the template: it is
\* incremented once for every element of fmt_strs, `%%` included
ArgIndex(fmt, j) == Len(fmt_strs(SubSeq(fmt, 1, j)))

_snprintf(fmt, args) ==
    IF Len(args) < Len(fmt_strs(fmt)) THEN Str(Src(fmt))
    ELSE LET one(j) == IF fmt[j].k = "lit" THEN Str(BraceEffect(fmt[j].s))
                       ELSE FormatOne(fmt[j], args[ArgIndex(fmt, j)])
             parts == [j \in 1..Len(fmt) |-> one(j)]
         IN IF \E j \in 1..Len(fmt) : parts[j].kind = "raise" THEN Raised
            ELSE IF \E j \in 1..Len(fmt) :
                       fmt[j].k = "lit" /\ parts[j].text \in {"error", "field"}
            THEN Str(Fallback(fmt, args))
            ELSE Str(Concat([j \in 1..Len(fmt) |-> parts[j].text]))

\* the pieces offered: text, text with braces, `%%`, conversions seen in
\* hash files, and conversions with a flag, a precision and a `*` width
Pieces ==
    {Lit("a"), Lit("{"), Lit("{{"), Pct,
     Conv(<<>>, "", "d"), Conv(<<>>, "", "x"), Conv(<<>>, "", "X"),
     Conv(<<>>, "l", "u"), Conv(<<"0", "4">>, "", "x"), Conv(<<"-", "5">>, "", "d"),
     Conv(<<".", "2">>, "", "d"), Conv(<<"*">>, "", "d")}

\* the arguments offered: 1, 0xff, 2^31, 2^31 + 1 and 2^32 - 1
ArgValues ==
    {Arg(0, 1), Arg(0, 255), Arg(32768, 0), Arg(32768, 1), Arg(65535, 65535)}

\* a piece of text runs up to the next conversion: no two are adjacent
Maximal(fmt) ==
    \A j \in 1..(Len(fmt) - 1) : ~(fmt[j].k = "lit" /\ fmt[j + 1].k = "lit")

\* the longest template (in pieces) and argument list offered
MaxPieces == 2
MaxArgs == 2

FmtInit ==
    /\ f_pc = "call"
    /\ f_fmt \in UNION {[1..n -> Pieces] : n \in 1..MaxPieces}
    /\ Maximal(f_fmt)
    /\ f_args \in UNION {[1..n -> ArgValues] : n \in 0..MaxArgs}
    /\ f_out = NoOut

\* log_content_formatted = self._snprintf(log_content, pkt_args)
SnprintfCall ==
    /\ f_pc = "call"
    /\ f_out' = _snprintf(f_fmt, f_args)
    /\ f_pc' = "done"
    /\ UNCHANGED <<f_fmt, f_args>>
    /\ UNCHANGED <<parseVars, runVars, postVars, windowVars, negVars, loadVars, evVars, dlfVars>>

(***************************************************************************)
(* QualcommParser.parse_diag_event, step by step                           *)
(***************************************************************************)
\* the packets handed to parse_diag_event: the event reports of ParseSpec,
\* every proper prefix of some of them, and reports whose last entry is a
\* byte string that declares more bytes than the packet holds
Prefixes(pkt) == {SubSeq(pkt, 1, n) : n \in 0..(Len(pkt) - 1)}

Overlong ==
    {[id |-> 291, len |-> 3, payload |-> <<5, 9>>, full |-> FALSE],
     [id |-> 1611, len |-> 3, payload |-> <<200>>, full |-> TRUE]}

EventPackets ==
    {EventReport(es) : es \in EventBatches}
    \cup UNION {Prefixes(EventReport(<<e, f>>)) : e \in EventKinds, f \in Overlong}
    \cup {EventReport(<<e, f>>) : e \in EventKinds, f \in Overlong}

EvInit ==
    /\ e_pc = "call"
    /\ e_pkt \in EventPackets
    /\ \E kpi \in BOOLEAN :
          e_cfg = [DefaultCfg EXCEPT !.parse_events = TRUE, !.show_kpi = kpi]
    /\ e_pos = 0 /\ e_cp = <<>> /\ e_out = <<>> /\ e_ts = <<>>
    /\ e_res = Pending

\* the header is unpacked; pos = 3, ts = datetime.datetime.now()
EventEnter ==
    /\ e_pc = "call"
    /\ IF Len(e_pkt) < EventHeaderLen
       THEN /\ e_pc' = "raised"
            /\ e_res' = RaiseRes(0, <<"parse_diag_event">>)
            /\ UNCHANGED <<e_pos, e_ts>>
       ELSE /\ e_pc' = "loop"
            /\ e_pos' = EventHeaderLen
            /\ e_ts' = Now(0)
            /\ UNCHANGED e_res
    /\ UNCHANGED <<e_pkt, e_cfg, e_cp, e_out>>
    /\ UNCHANGED <<parseVars, runVars, postVars, windowVars, negVars, loadVars, fmtVars, dlfVars>>

\* `while pos < len(pkt)` holds: one entry is parsed
EventIterate ==
    /\ e_pc = "loop"
    /\ e_pos < Len(e_pkt)
    /\ LET s == EventIteration(e_pkt, e_pos, e_cp, e_out, e_cfg)
       IN IF s.raised
          THEN /\ e_pc' = "raised"
               /\ e_res' = RaiseRes(0, <<"parse_diag_event">>)
               /\ UNCHANGED <<e_pos, e_cp, e_out, e_ts>>
          ELSE /\ e_pos' = s.pos /\ e_cp' = s.cp /\ e_out' = s.out /\ e_ts' = s.ts
               /\ UNCHANGED <<e_pc, e_res>>
    /\ UNCHANGED <<e_pkt, e_cfg>>
    /\ UNCHANGED <<parseVars, runVars, postVars, windowVars, negVars, loadVars, fmtVars, dlfVars>>

\* `while pos < len(pkt)` fails: the result dictionary is returned
EventReturn ==
    /\ e_pc = "loop"
    /\ e_pos >= Len(e_pkt)
    /\ e_pc' = "done"
    /\ e_res' = EventResult(0, e_cp, e_out, e_ts)
    /\ UNCHANGED <<e_pkt, e_cfg, e_pos, e_cp, e_out, e_ts>>
    /\ UNCHANGED <<parseVars, runVars, postVars, windowVars, negVars, loadVars, fmtVars, dlfVars>>

(***************************************************************************)
(* QualcommParser.parse_dlf                                                *)
(***************************************************************************)
\* the records of a DLF file: a 2-byte length, counted in the length, and
\* the rest.  Offered: a bare length, a 3-byte and a 4-byte record, and a
\* 14-byte record of the registered log item 0xB0C0
DlfRecordKinds ==
    {<<2, 0>>, <<3, 0, 7>>, <<4, 0, 8, 9>>,
     <<14, 0, 192, 176, 0, 0, 0, 0, 0, 0, 0, 0, 5, 5>>}

\* a length below 2, which the parser skips
DlfFiller == <<1, 0>>

\* the longest file offered, in records
MaxDlfRecords == 2

RECURSIVE Flatten(_)
Flatten(seqs) == IF seqs = <<>> THEN <<>> ELSE Head(seqs) \o Flatten(Tail(seqs))

DlfFiles ==
    {Flatten(rs) : rs \in UNION {[1..n -> DlfRecordKinds \cup {DlfFiller}] :
                                    n \in 1..MaxDlfRecords}}

\* the most bytes a read returns short of the rest of the file: the 0x100000
\* of `self.io_device.read(0x100000)`, scaled to the files offered
MaxDlfRead == 5

\* the inner `while True` of parse_dlf on the buffer buf: the packets handed
\* to parse_diag and what is left of the buffer
RECURSIVE DlfInner(_, _)
DlfInner(buf, out) ==
    IF Len(buf) < 2 THEN [buf |-> buf, out |-> out]
    ELSE LET pkt_len == U16(buf, 1)
         IN IF pkt_len < 2 THEN DlfInner(Slice(buf, 2, Len(buf)), out)
            ELSE LET pkt == Slice(buf, 0, pkt_len)
                 IN DlfInner(Slice(buf, pkt_len, Len(buf)),
                             Append(out, <<DIAG_LOG_F, 0>> \o Slice(pkt, 0, 2) \o pkt))

\* parse_result = self.parse_diag(pkt, has_crc=False, hdlc_encoded=False)
\* for each packet; the results that are not None go to the post-processor
DlfResults(pkts) ==
    SelectSeq([i \in 1..Len(pkts) |-> parse_diag(pkts[i], FALSE, FALSE, DefaultCfg)],
              LAMBDA r : r.kind # "none")

DlfInit ==
    /\ d_pc = "read"
    /\ d_content \in DlfFiles
    /\ d_pos = 0 /\ d_oldbuf = <<>> /\ d_dispatched = <<>> /\ d_posted = <<>>
    /\ d_reads = 0

\* one iteration of the outer loop: a read that returns data, then the
\* inner loop on oldbuf + buf
DlfRead ==
    /\ d_pc = "read"
    /\ d_pos < Len(d_content)
    /\ \E n \in 1..(Len(d_content) - d_pos) :
          /\ n <= MaxDlfRead \/ n = Len(d_content) - d_pos
          /\ LET buf == d_oldbuf \o SubSeq(d_content, d_pos + 1, d_pos + n)
                 r == DlfInner(buf, <<>>)
             IN /\ d_pos' = d_pos + n
                /\ d_oldbuf' = r.buf
                /\ d_dispatched' = d_dispatched \o r.out
                /\ d_posted' = d_posted \o DlfResults(r.out)
    /\ d_reads' = d_reads + 1
    /\ UNCHANGED <<d_pc, d_content>>
    /\ UNCHANGED <<parseVars, runVars, postVars, windowVars, negVars, loadVars, fmtVars, evVars>>

\* the read at the end of the file: `if len(buf) == 0: break`
DlfEnd ==
    /\ d_pc = "read"
    /\ d_pos = Len(d_content)
    /\ d_pc' = "done"
    /\ UNCHANGED <<d_content, d_pos, d_oldbuf, d_dispatched, d_posted, d_reads>>
    /\ UNCHANGED <<parseVars, runVars, postVars, windowVars, negVars, loadVars, fmtVars, evVars>>

(***************************************************************************)
(* Specifications                                                          *)
(***************************************************************************)
vars == <<parseVars, runVars, postVars, windowVars, negVars, loadVars, fmtVars, evVars, dlfVars>>

\* one call of parse_diag on one packet
ParseNext == ParseCall

\* a parser that is handed one packet; no session, no post-processing
ParseStart == ParseInit /\ RunOff /\ PostOff /\ WindowOff /\ NegOff /\ LoadOff /\ FmtOff /\ EvOff /\ DlfOff

ParseSpec == ParseStart /\ [][ParseNext]_vars

\* the live session
Next ==
    \/ ReadData
    \/ ReadEmpty
    \/ ReadFail
    \/ Iterate
    \/ SigInt
    \/ SecondRun
    \/ StopDiag

\* scat_main about to enter run_diag
Init == RunInit /\ ParseOff /\ PostOff /\ WindowOff /\ NegOff /\ LoadOff /\ FmtOff /\ EvOff /\ DlfOff

Spec == Init /\ [][Next]_vars

\* the main thread keeps running: a read returns, an iteration finishes, the
\* statements of scat_main after run_diag are executed.  Nothing forces a
\* signal or a device failure to happen.
FairSpec ==
    /\ Spec
    /\ WF_vars(ReadData \/ ReadEmpty)
    /\ WF_vars(Iterate)
    /\ WF_vars(SecondRun)
    /\ WF_vars(StopDiag)

\* results arriving at the post-processor as time passes
PostNext ==
    \/ Tick
    \/ Postprocess

\* a constructed parser with its options set, before the first result
PostStart == PostInit /\ ParseOff /\ RunOff /\ WindowOff /\ NegOff /\ LoadOff /\ FmtOff /\ EvOff /\ DlfOff

PostSpec == PostStart /\ [][PostNext]_vars

\* traffic results arriving as time passes
WindowNext ==
    \/ WindowTick
    \/ WindowFeed

WindowStart == WindowInit /\ ParseOff /\ RunOff /\ PostOff /\ NegOff /\ LoadOff /\ FmtOff /\ EvOff /\ DlfOff

WindowSpec == WindowStart /\ [][WindowNext]_vars

NegNext ==
    \/ NegWrite
    \/ NegReadDiscard
    \/ NegReadReply
    \/ NegTransportError
    \/ NegSleep
    \/ NegNextCall

NegStart == NegInit /\ ParseOff /\ RunOff /\ PostOff /\ WindowOff /\ LoadOff /\ FmtOff /\ EvOff /\ DlfOff

NegSpec == NegStart /\ [][NegNext]_vars

\* set_parameter as scat_main calls it for a Qualcomm parser
LoadNext ==
    \/ SkipHash
    \/ OpenQsr
    \/ QsrLine
    \/ OpenQsr4
    \/ Qsr4Line
    \/ SetMsgs
    \/ ReturnFromSetParameter

LoadStart ==
    LoadInit /\ ParseOff /\ RunOff /\ PostOff /\ WindowOff /\ NegOff /\ FmtOff /\ EvOff /\ DlfOff

LoadSpec == LoadStart /\ [][LoadNext]_vars

\* one call of _snprintf on one template and argument list
FmtNext == SnprintfCall

FmtStart ==
    FmtInit /\ ParseOff /\ RunOff /\ PostOff /\ WindowOff /\ NegOff /\ LoadOff /\ EvOff /\ DlfOff

FmtSpec == FmtStart /\ [][FmtNext]_vars

\* one call of parse_diag_event, step by step
EvNext == EventEnter \/ EventIterate \/ EventReturn

EvStart ==
    EvInit /\ ParseOff /\ RunOff /\ PostOff /\ WindowOff /\ NegOff /\ LoadOff /\ FmtOff /\ DlfOff

EvSpec == EvStart /\ [][EvNext]_vars

\* the interpreter runs the call on: a step that can be taken is taken
FairEvSpec == EvSpec /\ WF_vars(EvNext)

\* parse_dlf on one file
DlfNext == DlfRead \/ DlfEnd

DlfStart ==
    DlfInit /\ ParseOff /\ RunOff /\ PostOff /\ WindowOff /\ NegOff /\ LoadOff /\ FmtOff /\ EvOff

DlfSpec == DlfStart /\ [][DlfNext]_vars

(***************************************************************************)
(* Properties of parse_diag (ParseSpec)                                    *)
(***************************************************************************)
\* the call was made on a framed packet whose CRC bytes are wrong, with the
\* CRC check enabled
CrcMismatchSeen ==
    p_pc = "done" /\ p_framed /\ p_cfg.check_crc /\ p_crc = "flipped"

\* C1: with CRC checking enabled, a frame whose trailing CRC differs from
\* the computed one is skipped: one warning, no sub-decoder entered, no
\* result returned.
C1_CrcMismatchSkipped ==
    CrcMismatchSeen =>
        p_res.kind = "none" /\ p_res.warn = 1 /\ p_res.dec = <<>>

\* the payload is a multi-radio envelope with a complete 8-byte header
IsEnvelope(pl) == Len(pl) >= MultisimHeaderLen /\ pl[1] = DIAG_MULTI_RADIO_CMD_F

\* the bytes an envelope wraps
InnerOf(pl) == SubSeq(pl, MultisimHeaderLen + 1, Len(pl))

\* the radio id the claim gives a result for the radio-id field r
ClaimedRadioId(r) == IF r <= 1 THEN 0 ELSE 1

\* C6: for an envelope with radio-id field r, a dictionary result carries
\* radio_id 0 when r <= 1 and 1 when r >= 2, also around a nested envelope;
\* the inner payload reaches the dispatcher as it is (no unescaping, no CRC
\* stripping), so a wrapped 47-byte version response gives the version line
\* made of its own bytes.
C6_EnvelopeRadioId ==
    (p_pc = "done" /\ IsEnvelope(p_payload)) =>
        /\ p_res.kind = "dict" =>
              /\ p_res.radio_id = ClaimedRadioId(U32(p_payload, 5))
              /\ p_res.radio_id \in {0, 1}
        /\ (Len(InnerOf(p_payload)) = VersionMinLen /\ InnerOf(p_payload)[1] = DIAG_VERNO_F) =>
              /\ p_res.kind = "dict"
              /\ p_res.stdout = <<Line("Compile", SubSeq(InnerOf(p_payload), 2, 47))>>

\* C6 witness: an envelope with r = 2 around a version response whose bytes
\* are all 0x7D came back with radio_id 1 and the version line
C6_Witness ==
    /\ p_pc = "done"
    /\ p_payload = Envelope(<<2, 0, 0, 0>>, VersionPayload(125, 46))
    /\ p_res.kind = "dict" /\ p_res.radio_id = 1
    /\ p_res.stdout = <<Line("Compile", [i \in 1..46 |-> 125])>>

(***************************************************************************)
(* Properties of the live session (Spec, FairSpec)                         *)
(***************************************************************************)
\* the non-empty runs of bytes of a stream that a 0x7E terminates, in order
RECURSIVE FramesFrom(_, _, _)
FramesFrom(s, i, start) ==
    IF i > Len(s) THEN <<>>
    ELSE IF s[i] = HDLC_FLAG
         THEN (IF i > start THEN <<SubSeq(s, start, i - 1)>> ELSE <<>>)
              \o FramesFrom(s, i + 1, i + 1)
         ELSE FramesFrom(s, i + 1, start)

Frames(s) == FramesFrom(s, 1, 1)

\* the bytes of a stream after its last 0x7E
RECURSIVE Unterminated(_)
Unterminated(s) ==
    IF s = <<>> \/ s[Len(s)] = HDLC_FLAG THEN <<>>
    ELSE Append(Unterminated(SubSeq(s, 1, Len(s) - 1)), s[Len(s)])

\* run_diag is between two iterations, or over
BetweenIterations == r_pc \in {"read", "returned", "crashed", "exit1", "stopped"}

\* C2: every cancellation is eventually followed by run_diag returning and
\* the stop-diag requests being sent (unless the device fails or a decoder
\* raises first).
C2_CancelLeadsToTeardown ==
    r_stop ~> (r_pc \in {"stopped", "exit1", "crashed"})

\* C3: the frames passed to parse_diag are the terminated non-empty runs of
\* the bytes read so far, once each and in order, however the reads split
\* the stream; the bytes after the last 0x7E are retained.
C3_FramesDependOnStreamOnly ==
    BetweenIterations =>
        /\ r_dispatched = Frames(r_stream)
        /\ r_oldbuf = Unterminated(r_stream)

\* the framing of C3 as far as no decoder has raised
FramingUntilRaise ==
    (BetweenIterations /\ r_pc # "crashed") =>
        /\ r_dispatched = Frames(r_stream)
        /\ r_oldbuf = Unterminated(r_stream)

\* C4: an attached raw writer has received frame + 0x7E for every complete
\* non-empty frame read so far, in order, and nothing else.
C4_RawWriterGetsEveryFrame ==
    (BetweenIterations /\ r_writer) =>
        r_raw = [i \in 1..Len(Frames(r_stream)) |-> Append(Frames(r_stream)[i], HDLC_FLAG)]

\* the raw capture of C4 as far as no decoder has raised
RawUntilRaise ==
    (BetweenIterations /\ r_writer /\ r_pc # "crashed") =>
        r_raw = [i \in 1..Len(Frames(r_stream)) |-> Append(Frames(r_stream)[i], HDLC_FLAG)]

\* C5: the iteration that follows a zero-byte read ends run_diag without
\* another read when the device does not block; when it blocks, the loop
\* goes back to the read and nothing is dispatched.  run_diag returns in no
\* other way.
C5_ZeroByteRead ==
    [][(r_pc = "got" /\ r_pc' # "got") =>
          /\ (Len(r_buf) = 0 /\ ~r_block) =>
                r_pc' = "returned" /\ r_dispatched' = r_dispatched
          /\ (Len(r_buf) = 0 /\ r_block) =>
                /\ r_pc' = "read" /\ r_loop'
                /\ r_dispatched' = r_dispatched /\ r_raw' = r_raw
                /\ r_post' = r_post /\ r_oldbuf' = r_oldbuf
          /\ r_pc' = "returned" => (Len(r_buf) = 0 /\ ~r_block)]_vars

\* C5 witness: on a device that does not block, run_diag returned after a
\* zero-byte read, frames having been dispatched and a partial frame left
C5_Witness ==
    /\ ~r_block /\ r_pc = "returned" /\ r_lastlen = 0
    /\ r_dispatched # <<>> /\ r_oldbuf # <<>>

\* on a blocking device the loop is back at the read after a zero-byte read
BlockingReadsAgain ==
    r_block /\ r_pc = "read" /\ r_lastlen = 0 /\ r_dispatched # <<>>

\* the results the session's frames give carry no stdout line and no cp
\* record, so that post-processing them changes nothing
SessionResultsCarryNothing ==
    \A i \in 1..Len(r_post) :
        LET res == parse_diag(r_post[i], TRUE, TRUE, r_cfg)
        IN res.kind = "dict" /\ res.cp = <<>> /\ res.stdout = <<>>

(***************************************************************************)
(* Properties of the post-processor (PostSpec)                             *)
(***************************************************************************)
\* the number of lines of a result's stdout that pass a test
CountLines(lines, Test(_)) == Cardinality({i \in 1..Len(lines) : Test(lines[i])})

\* C7: two identical consecutive stdout lines for the same radio produce
\* one emission, unless the line begins with `LTE KPI RACH:`, in which case
\* every occurrence is emitted.  (The formula is the RACH half: the last
\* call emitted as many RACH lines as its result carried.)
C7_EveryRachEmitted ==
    calls > 0 => CountOf(emitted, IsRach) = CountLines(result.stdout, IsRach)

\* C8: no DL-MCS line and no `LTE KPI: TA=` line is emitted for a radio
\* while the RRC state tracked for it is not RRC_CONNECTED.
C8_GatedUnlessConnected ==
    \A i \in 1..Len(emitted) :
        (IsDlMcs(emitted[i].line) \/ IsTaKpi(emitted[i].line))
            => emitted[i].rrc = Connected

\* C9: two combined-KPI lines of a radio are never less than one second
\* apart (so no window of one second holds two of them), and a combined
\* line is emitted only while the radio is connected.
C9_CombinedOncePerSecond ==
    /\ \A r \in Radios :
          Len(comb_times[r]) = 2 =>
              comb_times[r][2] - comb_times[r][1] >= TicksPerSecond
    /\ \A i \in 1..Len(emitted) :
          IsCombinedKpi(emitted[i].line) => emitted[i].rrc = Connected

\* C9 witness: radio 0 got its second combined-KPI line exactly one second
\* after the first
C9_Witness ==
    /\ Len(comb_times[0]) = 2
    /\ comb_times[0][2] - comb_times[0][1] = TicksPerSecond
    /\ comb_times[0][2] = now
    /\ CountOf(emitted, IsCombinedKpi) = 1

\* C10: two DL-MCS lines of a radio are never less than two seconds apart
\* (so no window of two seconds holds two of them).
C10_DlMcsOncePerTwoSeconds ==
    \A r \in Radios :
        Len(dl_times[r]) = 2 =>
            dl_times[r][2] - dl_times[r][1] >= 2 * TicksPerSecond

\* C11: two serving-cell lines of a radio (`LTE Primary Cell: ...` or
\* `LTE Primary Cell (Connected): ...`, from a decoder or re-emitted from
\* the cache) are never less than one second apart.
C11_ServingCellOncePerSecond ==
    \A r \in Radios :
        Len(scell_times[r]) = 2 =>
            scell_times[r][2] - scell_times[r][1] >= TicksPerSecond

\* the lines of the emissions of the last call, in order
EmittedLines == [i \in 1..Len(emitted) |-> emitted[i].line]

\* C12: while radio 0 is connected, a result with the lines
\* `LTE KPI UL: MCS=15`, `LTE KPI TX: est. TX power=7 dBm`, `LTE KPI: TA=12`
\* (one instant) gives exactly one line,
\* `LTE KPI: UL MCS=15, TX power=7 dBm, TA=12`, and none of the three.
C12_GroupedKpiLine ==
    (/\ calls > 0
     /\ result.stdout = <<UlMcs, TxPower, TaKpi>>
     /\ per_radio[0].lte_rrc_state = Connected)
        => EmittedLines = <<Line("LTE KPI: UL MCS=", <<"15", "7", "12">>)>>

\* the radio a result is accounted to
RadioOf(res) == IF res.radio_id >= 0 THEN res.radio_id ELSE 0

\* the byte count a result adds to a counter (nothing when the key is absent)
BytesOf(n) == IF n >= 0 THEN n ELSE 0

\* C13: in KPI mode each result adds its dl_bytes and ul_bytes to the
\* counters of its radio, so that the counters are the sums seen since the
\* window was last reset; when the window has been open for a second or more
\* the counters and the window start are reset, and then, and only then and
\* only for a connected radio, one throughput line is emitted, reading
\* (DL + UL) * 8 / 10^6 with the result's own bytes included.  Nothing else
\* touches the counters.
C13_ThroughputAccounting ==
    [][calls' = calls + 1 =>
        LET res == result'
            rid == RadioOf(res)
            old == per_radio[rid]
            new == per_radio'[rid]
            dl == old.throughput_dl_bytes + BytesOf(res.dl_bytes)
            ul == old.throughput_ul_bytes + BytesOf(res.ul_bytes)
            opened == IF old.throughput_window_start = -1 THEN now
                      ELSE old.throughput_window_start
            lines == ThroughputLines(emitted')
        IN /\ \A r \in Radios \ {rid} :
                 /\ per_radio'[r].throughput_dl_bytes = per_radio[r].throughput_dl_bytes
                 /\ per_radio'[r].throughput_ul_bytes = per_radio[r].throughput_ul_bytes
           /\ IF ~(post_cfg.show_kpi /\ (res.dl_bytes >= 0 \/ res.ul_bytes >= 0))
              THEN /\ new.throughput_dl_bytes = old.throughput_dl_bytes
                   /\ new.throughput_ul_bytes = old.throughput_ul_bytes
                   /\ new.throughput_window_start = old.throughput_window_start
                   /\ lines = <<>>
              ELSE IF now - opened >= TicksPerSecond
              THEN /\ new.throughput_dl_bytes = 0 /\ new.throughput_ul_bytes = 0
                   /\ new.throughput_window_start = now
                   /\ lines = IF old.lte_rrc_state = Connected
                              THEN <<Line("LTE throughput: ", <<Mbps2((dl + ul) * 8)>>)>>
                              ELSE <<>>
              ELSE /\ new.throughput_dl_bytes = dl /\ new.throughput_ul_bytes = ul
                   /\ new.throughput_window_start = opened
                   /\ lines = <<>>
    ]_vars

\* C13 witness: a window of radio 0 that held 125000 DL bytes and 62500 UL
\* bytes has just been closed with the line `LTE throughput: 1.50 Mbps`
C13_Witness ==
    /\ calls > 0 /\ RadioOf(result) = 0 /\ result.ul_bytes = 62500
    /\ ThroughputLines(emitted) = <<Line("LTE throughput: ", <<"1.50">>)>>
    /\ per_radio[0].throughput_dl_bytes = 0 /\ per_radio[0].throughput_ul_bytes = 0
    /\ per_radio[0].throughput_window_start = now

\* C14: results with dl_bytes = 125000 and ul_bytes = 0 every 100 ms for
\* 1.2 s (the last one at 1.1 s or at 1.2 s), connected, from a fresh
\* state, give exactly one throughput line, `LTE throughput: 10.00 Mbps`.
C14_TenMbpsLine ==
    (/\ w_now = WindowEpoch + 12
     /\ \/ w_fedat = WindowEpoch..(WindowEpoch + 11)
        \/ w_fedat = WindowEpoch..(WindowEpoch + 12))
        => w_lines = <<Line("LTE throughput: ", <<"10.00">>)>>

\* what the feed of C14 gives: one line, counting the eleven results from
\* 0 s to 1.0 s
ElevenMbpsLine ==
    (/\ w_now = WindowEpoch + 12
     /\ \/ w_fedat = WindowEpoch..(WindowEpoch + 11)
        \/ w_fedat = WindowEpoch..(WindowEpoch + 12))
        => w_lines = <<Line("LTE throughput: ", <<"11.00">>)>>

\* a line before which the cached serving-cell line is refreshed
IsKpiLine(l) == IsDlMcs(l) \/ IsUlMcs(l) \/ IsTxPower(l) \/ IsCombinedKpi(l)

\* emission i of out is the cached serving-cell line, printed again
IsRefresh(out, i) == i \in 1..Len(out) /\ out[i].via = "refresh"

\* a serving-cell line was emitted in out before emission i, not counting a
\* refresh that comes right before i
ScellBefore(out, i) ==
    \E j \in 1..(i - 1) :
        IsServingCell(out[j].line) /\ ~(j = i - 1 /\ IsRefresh(out, j))

\* C15: when a DL-MCS, UL, TX or combined KPI line is emitted for a
\* connected radio and a serving-cell line is cached, the cached line is
\* emitted right before it, once, if and only if the radio's last
\* serving-cell line is more than two seconds old; the last-serving-cell
\* time is then now.  A cached line is emitted again nowhere else.
C15_ServingCellRefresh ==
    [][calls' = calls + 1 =>
        LET out == emitted'
            rid == RadioOf(result')
            cache == per_radio'[rid].last_scell_line
            before == scell_times[rid]
        IN \A i \in 1..Len(out) :
             /\ (IsKpiLine(out[i].line) /\ out[i].rrc = Connected) =>
                   LET due == /\ cache # NoLine
                              /\ ~ScellBefore(out, i)
                              /\ (before = <<>>
                                  \/ now - before[Len(before)] > 2 * TicksPerSecond)
                   IN IF due
                      THEN /\ IsRefresh(out, i - 1)
                           /\ out[i - 1].line = cache
                           /\ ~IsRefresh(out, i - 2)
                           /\ per_radio'[rid].last_scell_emit_time = now
                      ELSE ~IsRefresh(out, i - 1)
             /\ IsRefresh(out, i) =>
                   /\ i < Len(out)
                   /\ IsKpiLine(out[i + 1].line) /\ out[i + 1].rrc = Connected
    ]_vars

\* C15 witness: radio 0 is connected and its serving-cell line, more than
\* two seconds old, has just been printed again before a combined KPI line
C15_Witness ==
    /\ calls > 0 /\ Len(emitted) = 2
    /\ emitted[1].via = "refresh" /\ emitted[1].line = Scell
    /\ IsCombinedKpi(emitted[2].line) /\ emitted[2].rrc = Connected
    /\ Len(scell_times[0]) = 2
    /\ scell_times[0][2] - scell_times[0][1] > 2 * TicksPerSecond

\* line i is the last line of lines that passes Test
IsLastOf(lines, i, Test(_)) ==
    /\ Test(lines[i])
    /\ \A j \in (i + 1)..Len(lines) : ~Test(lines[j])

\* C16: after a call the tracked RRC state of the result's radio is the state
\* named by the last `LTE RRC State:` line of the result, and the cached
\* serving-cell line is the last serving-cell line of the result, whatever
\* the options are and whether or not the line was printed.
C16_StateCapture ==
    calls > 0 =>
        \A i \in 1..Len(result.stdout) :
            /\ IsLastOf(result.stdout, i, IsRrcState) =>
                  per_radio[RadioOf(result)].lte_rrc_state = result.stdout[i].v
            /\ IsLastOf(result.stdout, i, IsServingCell) =>
                  per_radio[RadioOf(result)].last_scell_line = result.stdout[i]

\* the RRC state is captured whenever lines are printed, not combined
RrcStateCapturedWhenPrinting ==
    (calls > 0 /\ ~post_cfg.combine_stdout) =>
        \A i \in 1..Len(result.stdout) :
            IsLastOf(result.stdout, i, IsRrcState) =>
                per_radio[RadioOf(result)].lte_rrc_state = result.stdout[i].v

\* the writer calls that carry the bytes of a result, in order
ResultWrites(calls_) == SelectSeq(calls_, LAMBDA w : w.log = NoLine)

\* what the lines of res do to the radio's state and what they send out when
\* the result names no layer and no layer is selected
LayerBlind(res, rs, t, cfg) ==
    LET blind == [cfg EXCEPT !.layers = {}]
        plain == [res EXCEPT !.layer = ""]
        a1 == Throughput([rs |-> rs, out |-> <<>>], RadioOf(plain), plain, t, blind,
                         TicksPerSecond)
    IN IF Len(plain.stdout) > 0
       THEN StdoutLines(a1, RadioOf(plain), plain.stdout, 1, t, blind)
       ELSE a1

\* C17: a call passes the cp records and then the up records of the result
\* to the writer, in list order, each with the radio and the timestamp of
\* the result, if the result has no layer or its layer is selected, and
\* passes none of them otherwise; what the stdout lines of the result do
\* does not depend on the layer or on the selected layers.
C17_LayerGating ==
    [][calls' = calls + 1 =>
        LET res == result'
            rid == RadioOf(res)
            ts == IF res.ts >= 0 THEN res.ts ELSE now
            got == ResultWrites(written')
            blind == LayerBlind(res, per_radio[rid], now, post_cfg)
        IN /\ IF res.layer = "" \/ res.layer \in post_cfg.layers
              THEN /\ Len(got) = Len(res.cp) + Len(res.up)
                   /\ \A i \in 1..Len(res.cp) :
                         got[i] = [kind |-> "cp", data |-> res.cp[i], log |-> NoLine,
                                   radio |-> rid, ts |-> ts]
                   /\ \A i \in 1..Len(res.up) :
                         got[Len(res.cp) + i] =
                             [kind |-> "up", data |-> res.up[i], log |-> NoLine,
                              radio |-> rid, ts |-> ts]
              ELSE got = <<>>
           /\ emitted' = blind.out
           /\ per_radio'[rid] = blind.rs
    ]_vars

\* C17 witness: a result of the selected layer rrc with two cp records, one up
\* record, a timestamp and a line was handled, and all three were written
C17_Witness ==
    /\ calls > 0 /\ result.layer = "rrc" /\ result.layer \in post_cfg.layers
    /\ result.cp = <<"pdu", "pdu2">> /\ result.up = <<"sdu">>
    /\ Len(written) = 3 /\ written[3].kind = "up" /\ written[3].ts = 1
    /\ Len(emitted) = 1

\* a result of a layer that is not selected was handled: nothing was written,
\* its line was printed
UnselectedLayerSeen ==
    /\ calls > 0 /\ result.layer = "nas" /\ Len(result.cp) = 2
    /\ written = <<>> /\ Len(emitted) = 1

\* C18: with --no-gsmtap no call of the post-processor passes anything to
\* writer.write_cp or writer.write_up, whatever the other options are.
C18_NoGsmtapNoWrites == post_cfg.no_gsmtap => written = <<>>

\* with --no-gsmtap no result that names a layer has its records written
NoGsmtapGatesLayers ==
    (post_cfg.no_gsmtap /\ calls > 0 /\ result.layer # "") =>
        ResultWrites(written) = <<>>

\* the properties of C7, C8 and C10 where each line is printed rather than
\* forwarded as a combined-stdout record
FiltersWhenPrinting ==
    ~post_cfg.combine_stdout =>
        /\ C7_EveryRachEmitted
        /\ C8_GatedUnlessConnected
        /\ C10_DlMcsOncePerTwoSeconds

(***************************************************************************)
(* Properties of the negotiation (NegSpec)                                 *)
(***************************************************************************)
\* the number of times init_diag has started its handshake again
Retries == IF n_attempt = 0 THEN 0 ELSE n_attempt - 1

\* C19: init_diag waits three seconds before each retry, each retry starts
\* with the drain read, the handshake is retried at most three times, and
\* the session exits with status 1 only when three retries have failed.
C19_NegotiationRetry ==
    /\ n_slept = SleepSeconds * Retries
    /\ Retries <= 3
    /\ (n_pc = "init_diag" /\ n_ops # <<>>) => n_ops[1].use = "drain"
    /\ n_pc = "exit1" => (Retries = 3 /\ n_failed = 4)

\* what init_diag does: the session exits when the second retry has failed,
\* after three attempts and six seconds of waiting
ExitAfterThreeAttempts ==
    /\ n_slept = SleepSeconds * Retries
    /\ (n_pc = "init_diag" /\ n_ops # <<>>) => n_ops[1].use = "drain"
    /\ n_pc = "exit1" => (n_attempt = MaxAttempts /\ n_failed = MaxAttempts
                          /\ n_slept = 6)

\* once init_diag has returned or the session is over there are no more
\* attempts and no more waits, and after exit status 1 nothing is entered
NoAttemptAfterReturn ==
    [][(n_pc \in {"prepare_diag", "run_diag", "exit1", "crashed"}) =>
          /\ n_attempt' = n_attempt /\ n_slept' = n_slept
          /\ (n_pc = "exit1" => n_pc' = "exit1")
    ]_vars

\* the requests written among the I/O calls ops, in order: the name and,
\* for a log mask, the subsystem
RequestsOf(ops) ==
    LET w == SelectSeq(ops, LAMBDA c : c.io = "write")
    IN [i \in 1..Len(w) |->
          <<w[i].req.name,
            IF w[i].req.name = "LOG_MASK_EMPTY" THEN w[i].req.arg[1] ELSE -1>>]

\* the requests of the handshake before the extended-message masks
HandshakeOrder ==
    <<  <<"VERNO", -1>>, <<"EXT_BUILD_ID", -1>>, <<"EVENT_REPORT", -1>>,
        <<"LOG_CONFIG_RETRIEVE_ID_RANGES", -1>>,
        <<"LOG_MASK_EMPTY", DIAG_SUBSYS_ID_1X>>,
        <<"LOG_MASK_EMPTY", DIAG_SUBSYS_ID_WCDMA>>,
        <<"LOG_MASK_EMPTY", DIAG_SUBSYS_ID_GSM>>,
        <<"LOG_MASK_EMPTY", DIAG_SUBSYS_ID_UMTS>>,
        <<"LOG_MASK_EMPTY", DIAG_SUBSYS_ID_DTV>>,
        <<"LOG_MASK_EMPTY", DIAG_SUBSYS_ID_LTE>>,
        <<"LOG_MASK_EMPTY", DIAG_SUBSYS_ID_TDSCDMA>>,
        <<"EXT_MSG_CONFIG_RANGES", -1>>  >>

\* C20: an attempt of init_diag starts with the drain read and then writes
\* the version query, the build-id query, the request that disables event
\* reporting, the log-id range query, the seven empty masks, the
\* extended-message range query and then only extended-message masks; and
\* in stop_diag, init_diag and prepare_diag a request is written only after
\* a read has returned, the call after a written request is the read of its
\* reply, and every reply read comes right after its request.
C20_SequentialHandshake ==
    [][Len(n_ops') = Len(n_ops) + 1 =>
        LET prev == n_last
            call == n_last'
            sent == RequestsOf(n_ops')
        IN /\ call = n_ops'[Len(n_ops')]
           /\ call.io = "write" => (prev.io = "read" /\ prev.ok)
           /\ (prev.io = "write" /\ prev.ok) =>
                 (call.io = "read" /\ call.use # "drain" /\ call.req = prev.req)
           /\ (call.io = "read" /\ call.use # "drain") =>
                 (prev.io = "write" /\ prev.ok /\ prev.req = call.req)
           /\ n_pc = "init_diag" =>
                 /\ n_ops'[1].use = "drain"
                 /\ \A i \in 2..Len(n_ops') : n_ops'[i].use # "drain"
                 /\ \A i \in 1..Len(sent) :
                       IF i <= Len(HandshakeOrder) THEN sent[i] = HandshakeOrder[i]
                       ELSE sent[i][1] = "EXT_MSG_CONFIG_SET_MASK"
    ]_vars

\* C20 witness: after a retry init_diag got a range list and prepare_diag has
\* queried and applied its levels and written all its masks
C20_Witness ==
    /\ n_pc = "prepare_diag" /\ n_todo = <<>> /\ n_attempt = 2
    /\ n_msgs /\ Len(n_emr_id_range) = 1 /\ Len(n_levels) = 1
    /\ Len(n_ops) = 16 /\ n_last.ok

\* init_diag has written the 23 default extended-message masks
DefaultMasksWritten ==
    /\ n_pc = "init_diag" /\ n_todo = <<>> /\ n_last.ok
    /\ Len(RequestsOf(n_ops)) = Len(HandshakeOrder) + 23

\* the requests written among the I/O calls ops, as they were packed
WrittenRequests(ops) ==
    LET w == SelectSeq(ops, LAMBDA c : c.io = "write")
    IN [i \in 1..Len(w) |-> w[i].req]

\* the requests of stop_diag: disable event reporting, disable the log
\* configuration, clear the extended-message configuration
TeardownOrder ==
    << [name |-> "EVENT_REPORT", arg |-> <<0>>],
       [name |-> "LOG_CONFIG_DISABLE", arg |-> <<>>],
       [name |-> "EXT_MSG_CONFIG_CLEAR", arg |-> <<0, 0, 0>>] >>

\* C21: stop_diag writes its three requests in the order disable event
\* reporting, disable log config, clear extended-message config, and no
\* error of the transport in stop_diag, SerialException or OSError, leaves
\* the function: the session is never ended inside the first stop_diag.
C21_TeardownErrorsAreWarnings ==
    /\ n_pc = "stop_diag" =>
          /\ Len(WrittenRequests(n_ops)) <= Len(TeardownOrder)
          /\ \A i \in 1..Len(WrittenRequests(n_ops)) :
                WrittenRequests(n_ops)[i] = TeardownOrder[i]
    /\ n_attempt = 0 => n_pc # "crashed"

\* the order of the requests of stop_diag alone
TeardownInOrder ==
    n_pc = "stop_diag" =>
        /\ Len(WrittenRequests(n_ops)) <= Len(TeardownOrder)
        /\ \A i \in 1..Len(WrittenRequests(n_ops)) :
              WrittenRequests(n_ops)[i] = TeardownOrder[i]

\* a SerialException in stop_diag is logged as a warning and stop_diag returns
SerialErrorInTeardownIsWarning ==
    [][(n_pc = "stop_diag" /\ n_pc' = "stop_diag" /\ n_todo # <<>> /\ n_todo' = <<>>
        /\ ~n_last'.ok) => n_warned' = n_warned + 1]_vars


(***************************************************************************)
(* C22: dispatch by first byte                                             *)
(***************************************************************************)
\* the sub-decoder parse_diag names for an opcode of its dispatch chain
DecoderOf(op) ==
    CASE op = DIAG_VERNO_F -> "parse_diag_version"
      [] op = DIAG_LOG_F -> "parse_diag_log"
      [] op = DIAG_EVENT_REPORT_F -> "parse_diag_event"
      [] op = DIAG_LOG_CONFIG_F -> "parse_diag_log_config"
      [] op = DIAG_EXT_MSG_F -> "parse_diag_ext_msg"
      [] op = DIAG_EXT_BUILD_ID_F -> "parse_diag_ext_build_id"
      [] op = DIAG_EXT_MSG_CONFIG_F -> "parse_diag_ext_msg_config"
      [] op = DIAG_EXT_MSG_TERSE_F -> "parse_diag_ext_msg_terse"
      [] op = DIAG_QSR_EXT_MSG_TERSE_F -> "parse_diag_qsr_ext_msg_terse"
      [] op = DIAG_MULTI_RADIO_CMD_F -> "parse_diag_multisim"
      [] op = DIAG_QSR4_EXT_MSG_TERSE_F -> "parse_diag_qsr4_ext_msg"
      [] op = DIAG_QSH_TRACE_PAYLOAD_F -> "parse_diag_qsh_trace_msg"
      [] op = DIAG_SECURE_LOG_F -> "parse_diag_secure_log"
      [] OTHER -> "none"

\* the call has returned and the packet was long enough to be dispatched
Dispatched == p_pc = "done" /\ Len(p_pkt) >= 3

\* the result of a packet no sub-decoder saw: None, nothing printed or sent
Ignored ==
    /\ p_res.kind = "none" /\ p_res.dec = <<>>
    /\ p_res.stdout = <<>> /\ ~p_res.has_cp

RoutedTo(name) == p_res.dec # <<>> /\ p_res.dec[1] = name

\* the opcodes whose routing depends on parse_msgs in the code
MsgsOpcodes ==
    {DIAG_EXT_MSG_F, DIAG_EXT_MSG_TERSE_F, DIAG_QSR_EXT_MSG_TERSE_F,
     DIAG_QSR4_EXT_MSG_TERSE_F, DIAG_QSH_TRACE_PAYLOAD_F}

\* C22: every opcode of the dispatch table is routed to its own sub-decoder;
\* only EVENT_REPORT_F (events enabled) and EXT_MSG_F (msgs enabled) are
\* gated by the options; an unknown or gated-off opcode returns None and
\* produces no output.  (EXT_MSG_TERSE_F is left out of the routing
\* requirement with msgs disabled: its decoder does nothing, so whether it
\* was entered cannot be observed.)
C22_DispatchByFirstByte ==
    Dispatched =>
        LET op == p_payload[1]
            gated == \/ op = DIAG_EVENT_REPORT_F /\ ~p_cfg.parse_events
                     \/ op = DIAG_EXT_MSG_F /\ ~p_cfg.parse_msgs
        IN IF DecoderOf(op) = "none" \/ gated THEN Ignored
           ELSE IF op = DIAG_EXT_MSG_TERSE_F /\ ~p_cfg.parse_msgs
           THEN p_res.kind = "none"
           ELSE RoutedTo(DecoderOf(op))

\* C22 (amended): every opcode of the dispatch table is routed to its own
\* sub-decoder; EVENT_REPORT_F only when events are enabled, and EXT_MSG_F,
\* EXT_MSG_TERSE_F, QSR_EXT_MSG_TERSE_F, QSR4_EXT_MSG_TERSE_F and
\* QSH_TRACE_PAYLOAD_F only when msgs are enabled; no other opcode is gated;
\* an unknown or gated-off opcode returns None and produces no output.
DispatchAsCoded ==
    Dispatched =>
        LET op == p_payload[1]
            gated == \/ op = DIAG_EVENT_REPORT_F /\ ~p_cfg.parse_events
                     \/ op \in MsgsOpcodes /\ ~p_cfg.parse_msgs
        IN IF DecoderOf(op) = "none" \/ gated THEN Ignored
           ELSE RoutedTo(DecoderOf(op))

\* a well-formed QSR terse message dropped because msgs are disabled
TerseDroppedWithoutMsgs ==
    /\ Dispatched /\ ~p_cfg.parse_msgs
    /\ p_payload = MsgHeader(DIAG_QSR_EXT_MSG_TERSE_F, 2) \o DeadBeef \o Args12
    /\ Ignored


(***************************************************************************)
(* C23: the log-item dispatcher and the length fields                      *)
(***************************************************************************)
\* parse_diag was handed a log item with a complete header, not enveloped
LogItemParsed ==
    /\ Dispatched /\ p_payload[1] = DIAG_LOG_F /\ Len(p_payload) >= LogHeaderLen

BodyOf(pkt) == Slice(pkt, LogHeaderLen, Len(pkt))

DecoderInvoked == Len(p_res.dec) >= 2 /\ p_res.dec[2] = "process"

\* the warnings of the call that are not about the CRC
OwnWarnings ==
    p_res.warn - (IF p_framed /\ p_cfg.check_crc /\ p_crc = "flipped" THEN 1 ELSE 0)

\* C23: the registered decoder of a log frame is given exactly
\* length2 - 12 payload bytes; a frame whose body length differs from
\* length2 - 12 is reported with a warning and skipped: no decoder is
\* invoked for it.
C23_LogBodyLength ==
    LogItemParsed =>
        LET length2 == U16(p_payload, 5)
        IN IF Len(BodyOf(p_payload)) # length2 - 12
           THEN OwnWarnings = 1 /\ ~DecoderInvoked
           ELSE /\ OwnWarnings = 0
                /\ DecoderInvoked => Len(p_res.cp[1].pkt_body) = length2 - 12

\* what the code does: the mismatch is warned about, and the decoder of a
\* registered id is invoked with the whole body whatever length2 says
LogMismatchWarnedOnly ==
    LogItemParsed =>
        /\ OwnWarnings = (IF Len(BodyOf(p_payload)) # U16(p_payload, 5) - 12 THEN 1 ELSE 0)
        /\ DecoderInvoked <=> U16(p_payload, 7) \in LogProcess
        /\ DecoderInvoked => p_res.cp[1].pkt_body = BodyOf(p_payload)

\* a registered decoder invoked on a body two bytes longer than announced
MismatchedLogDecoded ==
    /\ LogItemParsed /\ DecoderInvoked
    /\ U16(p_payload, 5) = 12 /\ Len(p_res.cp[1].pkt_body) = 2


(***************************************************************************)
(* C24: event dispatch, suppression and the fallback decoder               *)
(***************************************************************************)
\* parse_diag_event has returned the batch of the entries es
BatchParsed(es) ==
    /\ Dispatched /\ p_cfg.parse_events /\ p_payload = EventReport(es)
    /\ p_res.kind = "dict"

Registered(e) == EventArity(e.id) # 0
Suppressed(e) == ~Registered(e) /\ e.id \in NoProcessEvent
Forwarded(e) == ~Registered(e) /\ e.id \notin NoProcessEvent

\* the entries of a batch that contribute a record, in order
Contributing(es) == SelectSeq(es, LAMBDA e : ~Suppressed(e))

\* the `RRC event: <name>` lines of the result, in order
FailureLines(out) == SelectSeq(out, LAMBDA l : l.k = "RRC event: ")

\* the forwarded entries of a batch whose name contains FAILURE
FailureEntries(es) ==
    SelectSeq(es, LAMBDA e : Forwarded(e) /\ e.id \in FailureEvents)

\* every record of cp comes from the decoder its entry calls for
RecordsMatch(es) ==
    LET c == Contributing(es)
    IN /\ Len(p_res.cp) = Len(c)
       /\ \A i \in 1..Len(c) :
             /\ p_res.cp[i].event_id = c[i].id
             /\ p_res.cp[i].by = (IF Registered(c[i]) THEN "process" ELSE "fallback")

\* C24: a registered id goes to its decoder, a suppressed id contributes
\* nothing, any other entry goes to the fallback decoder and contributes
\* exactly one record to cp, plus a stdout line `RRC event: <name>` exactly
\* when its name contains FAILURE.
C24_EventDispatch ==
    \A es \in EventBatches :
        BatchParsed(es) =>
            /\ RecordsMatch(es)
            /\ Len(FailureLines(p_res.stdout)) = Len(FailureEntries(es))
            /\ \A i \in 1..Len(FailureEntries(es)) :
                  FailureLines(p_res.stdout)[i].v = <<FailureEntries(es)[i].id>>

\* C24 (amended): as above, but the stdout line `RRC event: <name>` is
\* produced exactly when show_kpi is set and the name contains FAILURE.
EventDispatchWithKpiGate ==
    \A es \in EventBatches :
        BatchParsed(es) =>
            LET f == IF p_cfg.show_kpi THEN FailureEntries(es) ELSE <<>>
            IN /\ RecordsMatch(es)
               /\ Len(FailureLines(p_res.stdout)) = Len(f)
               /\ \A i \in 1..Len(f) : FailureLines(p_res.stdout)[i].v = <<f[i].id>>

\* a batch of an unknown id with a 2-byte payload and a FAILURE event,
\* decoded without show_kpi: two fallback records, no stdout
C24_Witness ==
    /\ BatchParsed(<<[id |-> 291, len |-> 2, payload |-> <<16, 32>>, full |-> FALSE],
                     [id |-> 1608, len |-> 0, payload |-> <<>>, full |-> FALSE]>>)
    /\ ~p_cfg.show_kpi
    /\ Len(p_res.cp) = 2 /\ p_res.cp[1].by = "fallback" /\ p_res.cp[1].args = <<16, 32>>
    /\ p_res.stdout = <<>>

\* the claim's example: an unknown id with a 2-byte payload gives one
\* record and no stdout, with or without show_kpi
UnknownIdExample ==
    BatchParsed(<<[id |-> 291, len |-> 2, payload |-> <<16, 32>>, full |-> FALSE]>>)
        => Len(p_res.cp) = 1 /\ p_res.stdout = <<>>


(***************************************************************************)
(* C25, C26: the hash-file loaders and set_parameter (LoadSpec)            *)
(***************************************************************************)
\* the load ended in one of the failures: bad magic, decompression error,
\* or a ValueError (unknown or mismatched section tag, malformed row)
LoadFailed(r) == r \in {"magic", "zlib", "error"}

\* C25: loading is all-or-nothing: once a load has failed, every template
\* map it populates is empty, so that no template read before the failure
\* can be returned by a lookup.
C25_AllOrNothing ==
    /\ LoadFailed(h_report.qsr) => h_qsr_content = {}
    /\ LoadFailed(h_report.qsr4) =>
          /\ h_qsr4_content = {}
          /\ h_qsr4_mtrace_content = {}
          /\ h_qsr4_qtrace_str_content = {}

\* a load that fails before its first line leaves the maps as they were
EarlyFailureLeavesMapsEmpty ==
    h_report.qsr4 \in {"magic", "zlib"} =>
        /\ h_qsr4_content = {}
        /\ h_qsr4_mtrace_content = {}
        /\ h_qsr4_qtrace_str_content = {}

\* the rows read before a ValueError stay in the map and, with the msgs
\* option set, are looked up
PartialMapSurvives ==
    /\ h_pc = "done" /\ h_report.qsr4 = "error"
    /\ h_qsr4_content = {1} /\ h_parse_msgs

\* C26: after set_parameter has returned, parse_msgs is set whenever at
\* least one of the given hash files was loaded successfully, whatever the
\* msgs option and whatever became of the other file.
C26_LoadEnablesMsgs ==
    (h_pc = "done" /\ (h_report.qsr = "true" \/ h_report.qsr4 = "true"))
        => h_parse_msgs

\* what holds of the code: the last load that returned decides.  A loaded
\* QDB4 file enables parse_msgs; a loaded legacy file does when the QDB4
\* file was not given or raised ValueError.
LastLoadDecides ==
    h_pc = "done" =>
        /\ h_report.qsr4 = "true" => h_parse_msgs
        /\ (h_report.qsr = "true" /\ h_report.qsr4 \in {"none", "error"}) => h_parse_msgs
        /\ (h_report.qsr4 \in {"false", "magic", "zlib"} /\ ~h_args.msgs) => ~h_parse_msgs

\* a loaded legacy file followed by a QDB4 file with a bad magic
LegacyLoadedThenBadMagic ==
    /\ h_pc = "done" /\ h_report = [qsr |-> "true", qsr4 |-> "magic"]
    /\ ~h_args.msgs /\ ~h_parse_msgs /\ h_qsr_content # {}


(***************************************************************************)
(* C27: terse messages whose hash is in no store                           *)
(***************************************************************************)
\* the result is one record made without a template: it carries the raw
\* hash and the arguments
Placeholder(hash, args) ==
    /\ p_res.kind = "dict" /\ p_res.has_cp /\ Len(p_res.cp) = 1
    /\ ~p_res.cp[1].hit /\ p_res.cp[1].hash = hash /\ p_res.cp[1].args = args

\* a well-formed QSR terse message with two arguments was parsed, msgs
\* enabled, its hash not in qsr_content
QsrMiss(h) ==
    /\ Dispatched /\ p_cfg.parse_msgs /\ h \notin p_cfg.qsr_content
    /\ p_payload = MsgHeader(DIAG_QSR_EXT_MSG_TERSE_F, 2) \o h \o Args12

\* the same for a QSR4 terse message (two 4-byte arguments)
Qsr4Miss(h) ==
    /\ Dispatched /\ p_cfg.parse_msgs /\ h \notin p_cfg.qsr4_content
    /\ p_payload = Qsr4Header(36, h) \o Args12

\* C27: a QSR or QSR4 terse message whose hash is not in the store still
\* gives one GSMTAP record, a placeholder with the raw hash and the
\* arguments; a miss never gives an empty result and never fails.
C27_TemplateMiss ==
    \A h \in {DeadBeef, KnownHash} :
        /\ QsrMiss(h) => Placeholder(h, Args12)
        /\ Qsr4Miss(h) => Placeholder(h, Args12)

\* the legacy decoder does as claimed
QsrMissGivesPlaceholder ==
    \A h \in {DeadBeef, KnownHash} : QsrMiss(h) => Placeholder(h, Args12)

\* the claim's example: QSR4 hash 0xDEADBEEF, arguments 1 and 2, no record
Qsr4MissGivesNothing ==
    /\ Qsr4Miss(DeadBeef)
    /\ p_res.kind = "none" /\ p_res.dec = <<"parse_diag_qsr4_ext_msg">>


(***************************************************************************)
(* C28: decoders never raise                                               *)
(***************************************************************************)
\* C28: for every byte sequence handed to parse_diag, the call returns None
\* or a structured result; no exception leaves it.
C28_DecodersNeverRaise == p_pc = "done" => p_res.kind \in {"none", "dict"}

\* of the packets offered here (each a payload with its CRC, correctly
\* escaped), only those routed to an event or message decoder raise
RaisesOnlyInGatedDecoders ==
    (p_pc = "done" /\ p_res.kind = "raise") =>
        \/ p_cfg.parse_events /\ RoutedTo("parse_diag_event")
        \/ p_cfg.parse_msgs
        \/ /\ RoutedTo("parse_diag_multisim") /\ p_cfg.parse_events
           /\ p_res.dec[Len(p_res.dec)] = "parse_diag_event"

\* an event report cut after its opcode, events enabled: struct.unpack of
\* the header raises
ShortEventReportRaises ==
    /\ p_pc = "done" /\ p_cfg.parse_events /\ p_framed
    /\ p_payload = <<DIAG_EVENT_REPORT_F>>
    /\ p_res.kind = "raise"


(***************************************************************************)
(* C29: conversions and arguments of _snprintf                             *)
(***************************************************************************)
Called == f_pc = "done"

\* the number of conversions other than `%%` among the first j pieces
Consuming(fmt, j) == Len(SelectSeq(SubSeq(fmt, 1, j), LAMBDA p : p.k = "conv"))

\* the text a template expands to when piece j takes the argument at(j)
Expansion(fmt, args, at(_)) ==
    Concat([j \in 1..Len(fmt) |->
              IF fmt[j].k = "lit" THEN BraceEffect(fmt[j].s)
              ELSE FormatOne(fmt[j], args[at(j)]).text])

\* the call got as far as the final str.format and that did not fail
Expanded ==
    /\ Called /\ f_out.kind = "str"
    /\ f_out.text # Src(f_fmt) /\ f_out.text # Fallback(f_fmt, f_args)

\* C29: `%%` gives one `%` and takes no argument, so the k-th conversion
\* other than `%%` is rendered from the k-th argument; the template comes
\* back unchanged when there are fewer arguments than such conversions, and
\* is expanded when there are enough.
C29_PercentTakesNoArgument ==
    Called =>
        LET need == Consuming(f_fmt, Len(f_fmt))
            at(j) == Consuming(f_fmt, j)
        IN /\ Len(f_args) < need => f_out = Str(Src(f_fmt))
           /\ Len(f_args) >= need /\ f_out.kind = "str"
                /\ f_out.text # Fallback(f_fmt, f_args)
              => f_out.text = Expansion(f_fmt, f_args, at)

\* what the code does: conversions are taken in template order, and every
\* match takes the argument at its own position among the matches
ExpandedInTemplateOrder ==
    Expanded =>
        LET at(j) == ArgIndex(f_fmt, j)
        IN f_out.text = Expansion(f_fmt, f_args, at)

\* "%%%d" with the arguments 1 and 255 gives "%255"
PercentTookTheFirstArgument ==
    /\ Called
    /\ f_fmt = <<Pct, Conv(<<>>, "", "d")>>
    /\ f_args = <<Arg(0, 1), Arg(0, 255)>>
    /\ f_out = Str("%255")

\* "%%%d" with the one argument 1 comes back unchanged
PercentCountedAsConversion ==
    /\ Called
    /\ f_fmt = <<Pct, Conv(<<>>, "", "d")>>
    /\ f_args = <<Arg(0, 1)>>
    /\ f_out = Str("%%%d")


(***************************************************************************)
(* C30: format errors of _snprintf                                         *)
(***************************************************************************)
\* C30: for every template and every argument list the call returns a
\* string; when formatting fails, the string is the template followed by
\* `, args=` and the arguments in hexadecimal.
C30_FormatErrorsNeverPropagate ==
    Called =>
        /\ f_out.kind = "str"
        /\ f_out.text \in {Src(f_fmt), Fallback(f_fmt, f_args)}
           \/ Expanded

\* a conversion python's format() does not take: a precision, or anything
\* other than [sign][#][0][width] before the type
Unformattable(p) ==
    p.k = "conv" /\ (~PyFormatSpec(p.num).ok \/ PyFormatSpec(p.num).prec)

\* the call raises exactly when there are enough arguments and one of the
\* conversions is one python's format() does not take
RaisesOnConversionOnly ==
    Called =>
        (f_out.kind = "raise"
           <=> /\ Len(f_args) >= Len(fmt_strs(f_fmt))
               /\ \E j \in 1..Len(f_fmt) : Unformattable(f_fmt[j]))

\* an error of the final str.format is caught
BraceFallsBack ==
    /\ Called
    /\ f_fmt = <<Lit("{"), Conv(<<>>, "", "x")>>
    /\ f_args = <<Arg(0, 255)>>
    /\ f_out = Str("{%x, args=0xff")

\* "%.2d" with the argument 1 raises
PrecisionRaises ==
    /\ Called
    /\ f_fmt = <<Conv(<<".", "2">>, "", "d")>>
    /\ f_args = <<Arg(0, 1)>>
    /\ f_out = Raised

\* "%*d" with the argument 1 raises
StarWidthRaises ==
    /\ Called
    /\ f_fmt = <<Conv(<<"*">>, "", "d")>>
    /\ f_args = <<Arg(0, 1)>>
    /\ f_out = Raised


(***************************************************************************)
(* C31: templates without a conversion                                     *)
(***************************************************************************)
NoPercent(fmt) == \A j \in 1..Len(fmt) : fmt[j].k = "lit"

\* C31: a template without `%` is returned unchanged, whatever the
\* arguments and whatever else it holds, braces included.
C31_NoPercentUnchanged ==
    Called /\ NoPercent(f_fmt) => f_out = Str(Src(f_fmt))

\* a template without `%` and without a brace is returned unchanged
PlainTextUnchanged ==
    Called /\ NoPercent(f_fmt)
           /\ (\A j \in 1..Len(f_fmt) : BraceEffect(f_fmt[j].s) = f_fmt[j].s)
        => f_out = Str(Src(f_fmt))

\* "{{" comes back as "{"
DoubledBraceHalved ==
    Called /\ f_fmt = <<Lit("{{")>> /\ f_args = <<>> /\ f_out = Str("{")

\* "{" with the argument 1 comes back as "{, args=0x1"
BraceGetsArguments ==
    /\ Called /\ f_fmt = <<Lit("{")>> /\ f_args = <<Arg(0, 1)>>
    /\ f_out = Str("{, args=0x1")


(***************************************************************************)
(* C32: the cursor of parse_diag_event, order of the records, timestamp    *)
(***************************************************************************)
\* the fields of the event word at the cursor
WordAt(pkt, pos) == U16(pkt, pos + 1)
TagAt(pkt, pos) == (WordAt(pkt, pos) \div 8192) % 4
TruncAt(pkt, pos) == WordAt(pkt, pos) \div 32768

\* the loop has parsed one entry
EntryParsed == e_pc = "loop" /\ e_pos' # e_pos

\* the cursor moves by 2 + (8 or 2) + the size of the payload
CursorAdvance ==
    EntryParsed =>
        LET tag == TagAt(e_pkt, e_pos)
            tsbytes == IF TruncAt(e_pkt, e_pos) = 1 THEN 2 ELSE 8
            payload == e_pos + 2 + tsbytes
            size == CASE tag = 0 -> 0
                      [] tag = 1 -> 1
                      [] tag = 2 -> 2
                      [] tag = 3 -> 1 + e_pkt[payload + 1]
        IN e_pos' = e_pos + 2 + tsbytes + size

\* the offset of entry k of a report
RECURSIVE OffsetOf(_, _)
OffsetOf(es, k) ==
    IF k = 1 THEN EventHeaderLen
    ELSE OffsetOf(es, k - 1) + Len(EventEntry(es[k - 1]))

\* the arguments and the timestamp entry k of a report carries
ArgsOf(e) == IF e.len = 3 THEN Tail(e.payload) ELSE e.payload
TsOf(es, k) ==
    IF es[k].full THEN <<"qxdm", FullTs>> ELSE Now(OffsetOf(es, k))

\* the indices of the entries of a report that are not suppressed, in order
Kept(es) == SelectSeq([k \in 1..Len(es) |-> k], LAMBDA k : ~Suppressed(es[k]))

\* the call on the report of the entries es has returned
ReportDone(es) == e_pc = "done" /\ e_pkt = EventReport(es)

\* cp holds the records of the entries in payload order, ts is the
\* timestamp of the last entry
InPayloadOrder ==
    \A es \in EventBatches :
        ReportDone(es) =>
            LET kept == Kept(es)
            IN /\ Len(e_res.cp) = Len(kept)
               /\ \A i \in 1..Len(kept) :
                     /\ e_res.cp[i].event_id = es[kept[i]].id
                     /\ e_res.cp[i].args = ArgsOf(es[kept[i]])
                     /\ e_res.cp[i].ts = TsOf(es, kept[i])
               /\ e_res.ts = TsOf(es, Len(es))

\* C32: for each entry the cursor advances by 2 (event word) + 8 or 2
\* (timestamp, per the truncation flag) + the payload size (0, 1, 2 for the
\* tags 0, 1, 2 and 1 + L for tag 3, L the length byte); the entries are
\* decoded in payload order, cp holds their records in that order, and ts
\* is the timestamp of the last entry parsed.
C32_EventCursor == [][CursorAdvance]_vars /\ []InPayloadOrder

\* a report of a byte string and an entry with a full timestamp has been
\* parsed to its end: two records, the timestamp of the second entry
C32_Witness ==
    /\ ReportDone(<<[id |-> 291, len |-> 3, payload |-> <<2, 9, 9>>, full |-> FALSE],
                    [id |-> 1606, len |-> 1, payload |-> <<3>>, full |-> TRUE]>>)
    /\ e_pos = 21 /\ Len(e_res.cp) = 2
    /\ e_res.cp[1].args = <<9, 9>> /\ e_res.ts = <<"qxdm", FullTs>>


(***************************************************************************)
(* C33: the section state machine of load_qsr4_hash                        *)
(***************************************************************************)
\* load_qsr4_hash is at a line of the file
AtLine == h_pc = "qsr4" /\ h_lines # <<>>

\* the step left the loop with a ValueError
Aborts == h_report'.qsr4 = "error" /\ h_pc' = "params"

\* the step went on to the next line
GoesOn == h_pc' = "qsr4" /\ h_lines' = Tail(h_lines)

\* the maps a step adds a hash to
Grown ==
    {m \in {"content", "mtrace", "qtrace"} :
        CASE m = "content" -> h_qsr4_content' # h_qsr4_content
          [] m = "mtrace" -> h_qsr4_mtrace_content' # h_qsr4_mtrace_content
          [] OTHER -> h_qsr4_qtrace_str_content' # h_qsr4_qtrace_str_content}

\* the map of a mode
MapOf(mode) ==
    CASE mode = 1 -> {"content"} [] mode = 2 -> {"mtrace"} [] mode = 3 -> {"qtrace"}
      [] OTHER -> {}

\* the loop is entered in mode 0; an opening tag of a known section sets
\* its mode and any other aborts; a row grows at most the map of the mode
OpenAndRows ==
    /\ h_pc # "qsr4" /\ h_pc' = "qsr4" => h_mode' = 0
    /\ AtLine =>
          LET l == Head(h_lines)
          IN /\ IsOpen(l) /\ ModeOf(TagOf(l)) # 0 => GoesOn /\ h_mode' = ModeOf(TagOf(l))
             /\ IsOpen(l) /\ ModeOf(TagOf(l)) = 0 => Aborts
             /\ Grown \subseteq MapOf(h_mode)
             /\ IsOpen(l) \/ IsClose(l) => Grown = {}

\* C33: the mode is 0 outside any section; an opening tag `<Content>`,
\* `<MtraceContent>` or `<QtraceStrContent>` sets mode 1, 2 or 3 and any
\* other opening tag aborts the load; a closing tag must match the open
\* section or the load aborts, and after a close the mode is 0; a row
\* populates only the map of the mode, and no map in mode 0.
C33_SectionStateMachine ==
    [][/\ OpenAndRows
       /\ AtLine /\ IsClose(Head(h_lines)) =>
             IF h_mode # 0 /\ ModeOf(TagOf(Head(h_lines))) = h_mode
             THEN GoesOn /\ h_mode' = 0
             ELSE Aborts]_vars

\* what the code does: a closing tag aborts the load when it names a known
\* section other than the open one; any other closing tag sets mode 0
KnownCloseMustMatch ==
    [][/\ OpenAndRows
       /\ AtLine /\ IsClose(Head(h_lines)) =>
             IF ModeOf(TagOf(Head(h_lines))) \notin {0, h_mode}
             THEN Aborts
             ELSE GoesOn /\ h_mode' = 0]_vars

\* `<Content>`, a row, `<\Other>`: the load went on to the end and the row
\* is in the map
UnknownCloseAccepted ==
    /\ h_args.qsr4.lines = <<L("open_Content", 0), L("content_row", 1), L("close_Other", 0)>>
    /\ h_report.qsr4 = "true" /\ h_qsr4_content = {1}


(***************************************************************************)
(* C34: RRC state tracking from the event frame to the post-processor      *)
(***************************************************************************)
\* the text the claim gives for the payload a of LTE_RRC_STATE_CHANGE
ClaimedStateName(a) ==
    CASE a = 0 -> <<"RRC_SEARCH">>
      [] a = 1 -> <<"RRC_IDLE_NOT_CAMPED">>
      [] a = 2 -> <<"RRC_IDLE_CAMPED">>
      [] a = 3 -> <<"RRC_CONNECTING">>
      [] a = 4 -> <<"RRC_CONNECTED">>
      [] a = 5 -> <<"RRC_INACTIVE">>
      [] a = 7 -> <<"RRC_CLOSING">>
      [] OTHER -> <<"hex", a>>

\* the decoder of event 1606 gives one record, with the line
\* `LTE RRC State: <name>` in KPI mode and without a line otherwise
StateChangeDecoded ==
    \A a \in 0..8 :
        /\ EventResultOf(<<StateChange(a)>>, FALSE, TRUE).stdout
              = <<Line("LTE RRC State: ", ClaimedStateName(a))>>
        /\ Len(EventResultOf(<<StateChange(a)>>, FALSE, TRUE).cp) = 1
        /\ EventResultOf(<<StateChange(a)>>, FALSE, FALSE).stdout = <<>>
        /\ Len(EventResultOf(<<StateChange(a)>>, FALSE, FALSE).cp) = 1

\* the payload of the last LTE_RRC_STATE_CHANGE entry of a batch
LastStateOf(es) ==
    LET s == SelectSeq(es, LAMBDA e : e.id = 1606) IN s[Len(s)].payload[1]

\* the result of the batch es has been post-processed in KPI mode
BatchPostprocessed(es, enveloped) ==
    /\ calls > 0 /\ post_cfg.feed = "events" /\ post_cfg.show_kpi
    /\ result = EventResultOf(es, enveloped, TRUE)

\* the tracked state of the result's radio is the state of the last event
Tracked(es) ==
    /\ per_radio[RadioOf(result)].lte_rrc_state = ClaimedStateName(LastStateOf(es))
    /\ per_radio[RadioOf(result)].lte_rrc_state = Connected <=> LastStateOf(es) = 4

\* C34: in KPI mode with events enabled the decoder of event 1606 gives
\* the pair (GSMTAP, `LTE RRC State: <name>`), and after the frame has been
\* parsed and post-processed the tracked RRC state of the result's radio is
\* the name of the last such event of the batch: RRC_CONNECTED exactly when
\* its payload was 4.
C34_RrcStateEndToEnd ==
    /\ StateChangeDecoded
    /\ \A es \in StateBatches, enveloped \in BOOLEAN :
          BatchPostprocessed(es, enveloped) => Tracked(es)

\* the same when the lines are printed, not combined
RrcStateTrackedWhenPrinting ==
    /\ StateChangeDecoded
    /\ \A es \in StateBatches, enveloped \in BOOLEAN :
          BatchPostprocessed(es, enveloped) /\ ~post_cfg.combine_stdout => Tracked(es)

\* with combine_stdout the state change to RRC_CONNECTED leaves the tracked
\* state unset
CombinedLeavesStateUnset ==
    /\ BatchPostprocessed(<<StateChange(4)>>, FALSE) /\ post_cfg.combine_stdout
    /\ per_radio[0].lte_rrc_state = <<"None">>

\* a batch that ends in RRC_CONNECTED, printed: the state is tracked
ConnectedTrackedWhenPrinted ==
    /\ BatchPostprocessed(<<StateChange(2), StateChange(4)>>, FALSE)
    /\ ~post_cfg.combine_stdout
    /\ per_radio[0].lte_rrc_state = Connected


(***************************************************************************)
(* C35: the calls of scat_main in a live session                           *)
(***************************************************************************)
\* C35: after stop_diag, init_diag and prepare_diag, scat_main calls run_diag
\* exactly once and then stop_diag, whatever the options; with a raw-capture
\* file the one call is the call with the raw writer.
C35_RunDiagOnce ==
    r_pc # "off" =>
        /\ r_run = 1
        /\ r_qmdl => r_writer
        /\ r_pc = "stopped" => r_stopsent = StopRequests

\* without a raw-capture file run_diag is called once, without a writer,
\* and stop_diag follows its return
OnceWithoutRawCapture ==
    (r_pc # "off" /\ ~r_qmdl) =>
        /\ r_run = 1 /\ ~r_writer
        /\ r_pc = "stopped" => r_stopsent = StopRequests

\* with a raw-capture file, stop_diag comes after a second call
StopAfterSecondCall ==
    (r_pc = "stopped" /\ r_qmdl) => r_run = 2 /\ ~r_writer

\* the second call of run_diag, without the raw writer, is reading
SecondCallReads == r_qmdl /\ r_run = 2 /\ ~r_writer /\ r_pc = "read"


(***************************************************************************)
(* C36: parse_dlf and the boundaries of its reads                          *)
(***************************************************************************)
\* the records of a file by their length prefixes, each with the header
\* `10 00 LEN LEN` put before it; a length below 2 is skipped
RECURSIVE RecordsOf(_)
RecordsOf(content) ==
    IF Len(content) < 2 THEN <<>>
    ELSE LET n == U16(content, 1)
         IN IF n < 2 THEN RecordsOf(SubSeq(content, 3, Len(content)))
            ELSE <<(<<DIAG_LOG_F, 0>> \o SubSeq(content, 1, 2) \o SubSeq(content, 1, n))>>
                 \o RecordsOf(SubSeq(content, n + 1, Len(content)))

IsPrefix(s, t) == Len(s) <= Len(t) /\ s = SubSeq(t, 1, Len(s))

\* C36: however the file is split across reads, parse_dlf dispatches the
\* records of the file, each whole and once all of its bytes are there, and
\* never reads the bytes of one record as the length of another.
C36_DlfReadBoundaries ==
    /\ d_pc \in {"read", "done"} => IsPrefix(d_dispatched, RecordsOf(d_content))
    /\ d_pc = "done" => d_dispatched = RecordsOf(d_content)

\* a file read in one piece is dispatched record by record
WholeFileReadAtOnce ==
    (d_pc = "done" /\ d_reads = 1) => d_dispatched = RecordsOf(d_content)

\* the 4-byte record 04 00 08 09 read as 04 00 08 and then 09: a cut record
\* is dispatched, and the byte left over waits as the start of a length
CutRecordDispatched ==
    /\ d_pc = "done" /\ d_content = <<4, 0, 8, 9>> /\ d_reads = 2
    /\ d_dispatched = <<(<<16, 0, 4, 0, 4, 0, 8>>)>>
    /\ d_oldbuf = <<9>>


\* 03 00 07 04 00 08 09 read as five bytes and then the rest: the second
\* record is dispatched as 04 00, and its bytes 08 09 are read as a length
TailReadAsLength ==
    /\ d_pc = "done" /\ d_content = <<3, 0, 7, 4, 0, 8, 9>> /\ d_reads = 2
    /\ d_dispatched = <<(<<16, 0, 3, 0, 3, 0, 7>>), (<<16, 0, 4, 0, 4, 0>>),
                        (<<16, 0, 8, 9, 8, 9>>)>>



(***************************************************************************)
(* C39: parse_diag_event terminates                                        *)
(***************************************************************************)
Returned == e_pc \in {"done", "raised"}

\* the least an entry takes: the event word and a truncated timestamp
MinEntrySize == 4

AdvancesByAnEntry == EntryParsed => e_pos' >= e_pos + MinEntrySize

TagInRange ==
    (e_pc = "loop" /\ e_pos + 2 <= Len(e_pkt)) => TagAt(e_pkt, e_pos) \in 0..3

EndsAtTheEnd == (e_pc = "loop" /\ e_pos >= Len(e_pkt)) => e_pc' = "done"

\* C39: parse_diag_event returns or raises on every packet: every entry
\* parsed moves the cursor forward by four bytes or more, the payload-length
\* tag of an entry is 0, 1, 2 or 3, and once the cursor is at or past the
\* end of the packet the next step is the return.
C39_EventLoopTerminates ==
    /\ <>Returned
    /\ [][AdvancesByAnEntry /\ EndsAtTheEnd]_vars
    /\ []TagInRange

\* a report of two entries or more was parsed to a cursor past its end: the
\* last entry is a byte string that declares more bytes than the packet has
C39_Witness ==
    /\ e_pc = "done" /\ e_pos > Len(e_pkt) /\ Len(e_cp) >= 2
    /\ e_cp[Len(e_cp)].payload_len = 3



(***************************************************************************)
(* C40: `%d` renders a 32-bit argument as a signed number                  *)
(***************************************************************************)
\* the template is the one conversion `%d`
PlainDecimal == f_fmt = <<Conv(<<>>, "", "d")>> /\ Len(f_args) >= 1

TwoTo31 == Arg(32768, 0)

\* the decimal text of the two's-complement signed 32-bit value of a
SignedText(a) ==
    IF a.hi < 32768 THEN Dec32(a)
    ELSE IF a = TwoTo31 THEN "-2147483648"
    ELSE "-" \o ToString((65535 - a.hi) * 65536 + (65536 - a.lo))

\* C40: `%d` renders the argument v as v when v < 2^31 and as v - 2^32 when
\* v >= 2^31, a number from -2^31 to 2^31 - 1.
C40_DecimalIsSigned32 ==
    (Called /\ PlainDecimal) => f_out = Str(SignedText(f_args[1]))

\* every argument but 2^31 is rendered as its signed value
SignedButTwoTo31 ==
    (Called /\ PlainDecimal /\ f_args[1] # TwoTo31)
        => f_out = Str(SignedText(f_args[1]))

\* 2^31 is rendered as 2147483648, which no signed 32-bit number is
TwoTo31RenderedUnsigned ==
    /\ Called /\ PlainDecimal /\ f_args = <<TwoTo31>>
    /\ f_out = Str("2147483648")

\* 2^31 + 1 is rendered as -2147483647
AboveTwoTo31Negative ==
    /\ Called /\ PlainDecimal /\ f_args = <<Arg(32768, 1)>>
    /\ f_out = Str("-2147483647")



(***************************************************************************)
(* C37: the radios are kept apart                                          *)
(***************************************************************************)
\* the entries of the per-radio dictionaries that lines 89-100 create
PerRadioState(rs) ==
    <<rs.lte_rrc_state, rs.last_scell_line, rs.last_kpi_line,
      rs.last_scell_emit_time, rs.last_dl_mcs_emit_time,
      rs.last_combined_kpi_emit_time, rs.throughput_dl_bytes,
      rs.throughput_ul_bytes, rs.throughput_window_start,
      rs.last_ul_mcs, rs.last_tx_power_dbm, rs.last_ta_kpi>>

OtherRadiosUntouched ==
    calls' = calls + 1 =>
        \A r \in Radios \ {RadioOf(result')} :
            /\ PerRadioState(per_radio'[r]) = PerRadioState(per_radio[r])
            /\ \A i \in 1..Len(emitted') : emitted'[i].radio # r

\* C37: post-processing a result of one radio changes no per-radio entry of
\* the other radio (RRC state, cached serving-cell line, last KPI line,
\* throttle times, throughput counters and window start, combined-KPI
\* slots) and emits no line labelled with the other radio.
C37_PerRadioIsolation == [][OtherRadiosUntouched]_vars

\* a result of radio 1 changed the entries of radio 1 and emitted a line
\* while radio 0 was connected with a line on record
C37_Witness ==
    /\ calls >= 2 /\ RadioOf(result) = 1
    /\ Len(emitted) > 0 /\ emitted[1].radio = 1
    /\ per_radio[1].last_kpi_line # NoLine
    /\ per_radio[0].lte_rrc_state = Connected
    /\ per_radio[0].last_kpi_line # NoLine
    /\ per_radio[1].lte_rrc_state # Connected



(***************************************************************************)
(* C38: the record the duplicate check compares with                       *)
(***************************************************************************)
PrintingKpi == post_cfg.show_kpi /\ ~post_cfg.combine_stdout

\* an emission of the last statements of the loop body (lines 980-983): a
\* line of the result itself, neither the cached serving-cell line nor a
\* combined-KPI or throughput line
MainPath(e) == e.via = "print" /\ ~IsCombinedKpi(e.line) /\ ~IsThroughput(e.line)

MainLines(out) ==
    LET main == SelectSeq(out, MainPath) IN [i \in 1..Len(main) |-> main[i].line]

StartsWithRach(l) == l.k = "LTE KPI RACH:"

\* after a call the record of the radio is the last line printed for it on
\* the main path, and no line was printed there that equals the line
\* printed there before it, in this call or an earlier one, unless exempt
DuplicateCheck(exempt(_)) ==
    (calls' = calls + 1 /\ PrintingKpi) =>
        LET rid == RadioOf(result')
            chain == <<per_radio[rid].last_kpi_line>> \o MainLines(emitted')
        IN /\ per_radio'[rid].last_kpi_line = chain[Len(chain)]
           /\ \A i \in 1..(Len(chain) - 1) :
                 chain[i] = chain[i + 1] => exempt(chain[i])

NoLineExempt(l) == FALSE

\* C38: in KPI mode, printing, the record of the duplicate check is the last
\* line of the radio printed on the main path: dropped lines, re-emitted
\* serving-cell lines, combined-KPI lines and throughput lines leave it
\* alone, and a line equal to it is suppressed, whatever was dropped in
\* between.
C38_DuplicateRecord == [][DuplicateCheck(NoLineExempt)]_vars

\* the same, but a line that starts with `LTE KPI RACH:` is printed every
\* time, also when it equals the record
DuplicateRecordButRach == [][DuplicateCheck(StartsWithRach)]_vars

\* radio 0 printed the state line, then its UL-MCS line was grouped into a
\* combined line, then the state line came again and was suppressed
C38_Witness ==
    /\ PrintingKpi /\ calls = 3
    /\ result = Says(-1, <<StateConnected>>) /\ emitted = <<>>
    /\ per_radio[0].last_kpi_line = StateConnected
    /\ per_radio[0].last_ul_mcs # <<>>
    /\ comb_times[0] # <<>>

\* a RACH line that equals the record was printed again
RachPrintedAgain ==
    /\ PrintingKpi /\ result = Says(-1, <<Rach, Rach>>)
    /\ MainLines(emitted) = <<Rach, Rach>>

====
